---------------------------- MODULE Spec2Model ----------------------------
(***************************************************************************)
(* Upload reconciliation pipeline of the procurement dashboard:            *)
(*   - batch commit of purchase-order lines   (upload-procured-meds/commit)*)
(*   - batch commit of inspection records     (upload-iar/commit)          *)
(*   - manual single-row insert of either entity                           *)
(* running as concurrent requests against one store whose tables carry a   *)
(* unique index on the composite key.  A request handler runs atomically   *)
(* between two awaited store calls; every awaited store call is one step.  *)
(*                                                                         *)
(* Text is modelled as sequences of one-character strings so that trim,    *)
(* the '::' key join and the '::' split are computed, not assumed.         *)
(***************************************************************************)
EXTENDS Integers, Sequences, FiniteSets, TLC

\* ------------------------------------------------------------------ bounds
\* rows per submitted batch
MaxBatch == 3
\* requests over the life of a run (all of them may overlap)
MaxRequests == 2

\* --------------------------------------------------------- program constant
\* keys per existing-key / manufacturer query
ChunkSize == 500

\* ----------------------------------------------------------------- values
\* null / undefined of a nullable string field
Null == <<"<null>">>

Digits == {"0", "1", "2", "3", "4", "5", "6", "7", "8", "9"}

DigitVal(c) ==
  CASE c = "0" -> 0 [] c = "1" -> 1 [] c = "2" -> 2 [] c = "3" -> 3
    [] c = "4" -> 4 [] c = "5" -> 5 [] c = "6" -> 6 [] c = "7" -> 7
    [] c = "8" -> 8 [] c = "9" -> 9

DigitChar(d) ==
  CASE d = 0 -> "0" [] d = 1 -> "1" [] d = 2 -> "2" [] d = 3 -> "3"
    [] d = 4 -> "4" [] d = 5 -> "5" [] d = 6 -> "6" [] d = 7 -> "7"
    [] d = 8 -> "8" [] d = 9 -> "9"

RECURSIVE NatToStr(_)
NatToStr(n) ==
  IF n < 10 THEN <<DigitChar(n)>>
  ELSE NatToStr(n \div 10) \o <<DigitChar(n % 10)>>

\* `${n}` of an integer in a template literal
IntToStr(n) == IF n < 0 THEN <<"-">> \o NatToStr(0 - n) ELSE NatToStr(n)

\* white space: what trim strips and \s matches
Spaces == {" ", "\t", "\n", "\r"}

RECURSIVE TrimStart(_)
TrimStart(s) ==
  IF s # <<>> /\ Head(s) \in Spaces THEN TrimStart(Tail(s)) ELSE s

RECURSIVE TrimEnd(_)
TrimEnd(s) ==
  IF s # <<>> /\ s[Len(s)] \in Spaces THEN TrimEnd(SubSeq(s, 1, Len(s) - 1)) ELSE s

\* String.prototype.trim
Trim(s) == TrimEnd(TrimStart(s))

\* row.manufacturer?.trim() || null
TrimOrNull(s) ==
  IF s = Null THEN Null
  ELSE IF Trim(s) = <<>> THEN Null ELSE Trim(s)

\* first index at or after i where sep occurs in s, 0 when none
RECURSIVE IndexOfFrom(_, _, _)
IndexOfFrom(s, sep, i) ==
  IF i + Len(sep) - 1 > Len(s) THEN 0
  ELSE IF SubSeq(s, i, i + Len(sep) - 1) = sep THEN i
  ELSE IndexOfFrom(s, sep, i + 1)

\* String.prototype.split(sep) for a non-empty separator
RECURSIVE Split(_, _)
Split(s, sep) ==
  LET i == IndexOfFrom(s, sep, 1) IN
  IF i = 0 THEN <<s>>
  ELSE <<SubSeq(s, 1, i - 1)>> \o Split(SubSeq(s, i + Len(sep), Len(s)), sep)

RECURSIVE DigitsToNat(_, _)
DigitsToNat(s, acc) ==
  IF s = <<>> THEN acc ELSE DigitsToNat(Tail(s), acc * 10 + DigitVal(Head(s)))

\* Number(text): whitespace is trimmed, "" is 0, a decimal integer is its value,
\* anything else is NaN
Number(s) ==
  LET t == Trim(s)
      neg == t # <<>> /\ Head(t) = "-"
      body == IF neg THEN Tail(t) ELSE t
  IN IF t = <<>> THEN [nan |-> FALSE, val |-> 0]
     ELSE IF body # <<>> /\ \A k \in 1..Len(body) : body[k] \in Digits
       THEN [nan |-> FALSE,
             val |-> IF neg THEN 0 - DigitsToNat(body, 0) ELSE DigitsToNat(body, 0)]
     ELSE [nan |-> TRUE, val |-> 0]

\* ------------------------------------------------------------------ dates
NullDate == [kind |-> "null", y |-> 0, m |-> 0, d |-> 0]
InvalidDate == [kind |-> "invalid", y |-> 0, m |-> 0, d |-> 0]
DateOf(yy, mm, dd) ==
  IF mm \in 1..12 /\ dd \in 1..31
    THEN [kind |-> "date", y |-> yy, m |-> mm, d |-> dd]
    ELSE InvalidDate

AllDigits(s, from, to) == \A k \in from..to : s[k] \in Digits

\* /^\d{4}-\d{2}-\d{2}$/.test(s)
IsoDateShape(s) ==
  /\ Len(s) = 10
  /\ AllDigits(s, 1, 4) /\ s[5] = "-" /\ AllDigits(s, 6, 7)
  /\ s[8] = "-" /\ AllDigits(s, 9, 10)

MidnightSuffix == <<"T", "0", "0", ":", "0", "0", ":", "0", "0">>

\* new Date(text) on Node: an ISO date, an ISO date at T00:00:00 and a
\* MM/DD/YYYY date are read; month 1..12 and day 1..31 are required; any
\* other text gives an Invalid Date (getTime() is NaN)
NewDate(s) ==
  IF IsoDateShape(s)
    THEN DateOf(DigitsToNat(SubSeq(s, 1, 4), 0), DigitsToNat(SubSeq(s, 6, 7), 0),
                DigitsToNat(SubSeq(s, 9, 10), 0))
  ELSE IF Len(s) = 19 /\ IsoDateShape(SubSeq(s, 1, 10))
          /\ SubSeq(s, 11, 19) = MidnightSuffix
    THEN DateOf(DigitsToNat(SubSeq(s, 1, 4), 0), DigitsToNat(SubSeq(s, 6, 7), 0),
                DigitsToNat(SubSeq(s, 9, 10), 0))
  ELSE IF Len(s) = 10 /\ AllDigits(s, 1, 2) /\ s[3] = "/" /\ AllDigits(s, 4, 5)
          /\ s[6] = "/" /\ AllDigits(s, 7, 10)
    THEN DateOf(DigitsToNat(SubSeq(s, 7, 10), 0), DigitsToNat(SubSeq(s, 1, 2), 0),
                DigitsToNat(SubSeq(s, 4, 5), 0))
  ELSE InvalidDate

\* parsePoDate of the purchase-order commit: null for null, blank and
\* unparsable text alike
parsePoDate(value) ==
  IF value = Null \/ value = <<>> THEN NullDate
  ELSE LET trimmed == Trim(value) IN
       IF trimmed = <<>> THEN NullDate
       ELSE LET parsed == IF IsoDateShape(trimmed)
                            THEN NewDate(trimmed \o MidnightSuffix)
                            ELSE NewDate(trimmed)
            IN IF parsed.kind = "invalid" THEN NullDate ELSE parsed

\* parseDateOnly of the inspection commit and of the manual inspection insert
parseDateOnly(value) ==
  LET trimmed == Trim(value) IN
  IF trimmed = <<>> THEN NullDate
  ELSE LET parsed == IF IsoDateShape(trimmed)
                       THEN NewDate(trimmed \o MidnightSuffix)
                       ELSE NewDate(trimmed)
       IN IF parsed.kind = "invalid" THEN NullDate ELSE parsed

\* ------------------------------------------------------------ sequences
Range(seq) == {seq[k] : k \in 1..Len(seq)}

\* a chunk whose later slices start one item late
RECURSIVE chunkSkippingAtBoundary(_, _)
chunkSkippingAtBoundary(items, size) ==
  IF items = <<>> THEN <<>>
  ELSE IF Len(items) <= size THEN <<items>>
  ELSE <<SubSeq(items, 1, size)>>
         \o chunkSkippingAtBoundary(SubSeq(items, size + 2, Len(items)), size)

\* chunk(items, size): consecutive slices of at most size items
RECURSIVE chunk(_, _)
chunk(items, size) ==
  IF items = <<>> THEN <<>>
  ELSE IF Len(items) <= size THEN <<items>>
  ELSE <<SubSeq(items, 1, size)>> \o chunk(SubSeq(items, size + 1, Len(items)), size)

RECURSIVE InsertByRowIndex(_, _)
InsertByRowIndex(sorted, e) ==
  IF sorted = <<>> THEN <<e>>
  ELSE IF e.rowIndex < Head(sorted).rowIndex THEN <<e>> \o sorted
  ELSE <<Head(sorted)>> \o InsertByRowIndex(Tail(sorted), e)

\* the ledger returned in the order its entries were pushed
Unsorted(logs) == logs

RECURSIVE SortByRowIndex(_)
\* logs.sort((a, b) => a.rowIndex - b.rowIndex), a stable sort
SortByRowIndex(logs) ==
  IF logs = <<>> THEN <<>>
  ELSE InsertByRowIndex(SortByRowIndex(SubSeq(logs, 1, Len(logs) - 1)),
                        logs[Len(logs)])


\* nullable number: <<>> is null, <<n>> is n
None == <<>>
Some(n) == <<n>>

\* ------------------------------------------------------- submitted inputs
sA == <<"A">>
sA1 == <<"A", ":", ":", "1">>
sI == <<"I">>
sPadI == <<" ", "I">>
sJ == <<"J">>
sM == <<"M">>
sPadM == <<" ", "M", " ">>
sX == <<"X">>
dIso == <<"2", "0", "2", "4", "-", "0", "1", "-", "1", "5">>
dUs == <<"0", "1", "/", "1", "5", "/", "2", "0", "2", "4">>
dJunk == <<"N", "/", "A">>
dBlank == <<" ">>

PoRow(po, item, date, mfr, qty) ==
  [poNumber |-> po, itemNo |-> item, poDate |-> date, manufacturer |-> mfr,
   quantity |-> qty]

\* rows a client may put in the body of a purchase-order commit: two rows of
\* one key (the second with an unparsable date), and a PO number holding '::'
PoRowPool ==
  { PoRow(sA, 1, dIso, sPadM, Some(2)),
    PoRow(sA, 1, dJunk, Null, None),
    PoRow(sA1, 2, Null, sM, Some(1)) }

\* bodies of the manual purchase-order insert: the same rows and one that the
\* schema refuses (itemNo below 1)
PoManualPool == PoRowPool \cup { PoRow(sA, 0, Null, Null, None) }

IarRow(iarNo, date, po, item, qty, exp, mfr) ==
  [iarNumber |-> iarNo, dateOfInspection |-> date, poNumber |-> po,
   itemNumber |-> item, inspectedQuantity |-> qty, expirationDate |-> exp,
   manufacturer |-> mfr]

\* rows a client may put in the body of an inspection commit; the manufacturer
\* field is one the schema does not declare
IarRowPool ==
  { IarRow(sI, dIso, sA, 1, 1, Null, sX),
    IarRow(sPadI, dUs, sA, 1, 2, dIso, Null),
    IarRow(sJ, dIso, sA1, 2, 1, Null, Null),
    IarRow(sJ, dJunk, sA, 1, 1, Null, Null),
    IarRow(sI, dIso, sA1, 2, 1, dBlank, Null) }

RECURSIVE SeqsUpTo(_, _)
\* the sequences over S of length at most n
SeqsUpTo(S, n) ==
  IF n = 0 THEN {<<>>}
  ELSE LET shorter == SeqsUpTo(S, n - 1) IN
       shorter \cup {Append(q, x) : q \in {t \in shorter : Len(t) = n - 1}, x \in S}

PoBatches == SeqsUpTo(PoRowPool, MaxBatch)
IarBatches == SeqsUpTo(IarRowPool, MaxBatch)

\* ------------------------------------------------------------------ state
VARIABLES
  procuredMeds,   \* table procured_meds: the stored ProcurementLineItem rows
  iar,            \* table iar: the stored InspectionRecord rows
  iarLoaded,      \* whether the generated client carries the iar delegate
  req             \* the requests: handler position, locals, response; and for
                  \* the claims: the store calls issued (queries), the rows
                  \* stored (inserted) and refused (rejected), and the line
                  \* items stored when the manufacturer lookup began (lineItems)

VARIABLES
  input,          \* what an endpoint that writes nothing is given: a pair of
                  \* quantities, a stored column, the rows of a sheet
  output          \* what that endpoint returned

VARIABLES
  page            \* an upload page in the browser: its React state and the
                  \* requests it has sent and not yet seen answered

vars == <<procuredMeds, iar, iarLoaded, req, input, output, page>>

\* no upload page is open
NoPage == [kind |-> "none"]

\* no read or parse request is under way
NoInput == [kind |-> "none"]
NoOutput == [kind |-> "none"]

Requests == 1..MaxRequests

NoResponse ==
  [status |-> 0, error |-> "", insertedCount |-> 0, totalReceived |-> 0,
   skippedDuplicates |-> 0, logs |-> <<>>, row |-> 0]

ErrorResponse(st, msg) == [NoResponse EXCEPT !.status = st, !.error = msg]

\* an error message that names a row
RowErrorResponse(st, msg, n) == [ErrorResponse(st, msg) EXCEPT !.row = n]

\* a request that has not arrived yet
IdleRequest ==
  [kind |-> "none", pc |-> "idle", rows |-> <<>>, mapped |-> <<>>,
   dedupedRows |-> <<>>, logs |-> <<>>, found |-> {}, manufacturerByPoItem |-> {},
   dataToInsert |-> <<>>, group |-> 0, response |-> NoResponse,
   queries |-> 0, inserted |-> {}, rejected |-> {}, lineItems |-> {}]

Init ==
  /\ procuredMeds = {}
  /\ iar = {}
  /\ iarLoaded \in BOOLEAN
  /\ req = [i \in Requests |-> IdleRequest]
  /\ input = NoInput
  /\ output = NoOutput
  /\ page = NoPage

\* request i arrives next: arrivals are numbered in order
CanStart(i) ==
  /\ req[i].pc = "idle"
  /\ IF i = 1 THEN TRUE ELSE req[i - 1].pc # "idle"

Finish(r, resp) == [r EXCEPT !.pc = "done", !.response = resp]

\* ------------------------------------------------------------------ store
\* unique index (po_number, item_no): the stored row of a key, if any
PoStored(store, po, item) ==
  {s \in store : s.poNumber = po /\ s.itemNo = item}

\* unique index (iar_number, po_number, item_number)
IarStored(store, iarNo, po, item) ==
  {s \in store : s.iarNumber = iarNo /\ s.poNumber = po /\ s.itemNumber = item}

\* createMany({ data, skipDuplicates: true }): refused rows are left out
\* silently and only the stored ones are counted
CreateManySkipDuplicates(store, data, violations) ==
  [threw |-> FALSE, store |-> store \cup (Range(data) \ violations),
   count |-> Cardinality({k \in 1..Len(data) : data[k] \notin violations}),
   rejected |-> violations]

\* a bulk write that replaces the table by the batch
CreateManyReplacing(store, data, violations) ==
  [threw |-> FALSE, store |-> Range(data), count |-> Len(data), rejected |-> {}]

\* createMany({ data }) without skipDuplicates is one INSERT statement: when
\* the unique index refuses any row the statement fails as a whole and the
\* call throws; otherwise every row is stored and counted
CreateMany(store, data, violations) ==
  IF violations # {}
    THEN [threw |-> TRUE, store |-> store, count |-> 0, rejected |-> violations]
    ELSE [threw |-> FALSE, store |-> store \cup Range(data), count |-> Len(data),
          rejected |-> {}]

\* ------------------------------------------- purchase-order batch commit
PoKeyOf(poNumber, itemNo) == poNumber \o <<":", ":">> \o IntToStr(itemNo)

\* CommitSchema: poNumber is a string of at least one character
PoCommitSchemaOk(rows) ==
  \A k \in 1..Len(rows) : rows[k].poNumber # Null /\ Len(rows[k].poNumber) >= 1

\* parsed.data.rows.map((r, idx) => ...)
PoMapped(rows) ==
  [k \in 1..Len(rows) |->
     [poNumber |-> rows[k].poNumber, itemNo |-> rows[k].itemNo,
      poDate |-> parsePoDate(rows[k].poDate),
      manufacturer |-> rows[k].manufacturer, quantity |-> rows[k].quantity,
      rowIndex |-> k - 1]]

PoDuplicateLog(row) ==
  [rowIndex |-> row.rowIndex, poNumber |-> row.poNumber, itemNo |-> row.itemNo,
   result |-> "skipped", reason |-> "duplicate_in_upload"]

\* PoDedup with seenKeys.add(key) forgotten: no row is ever seen before
PoDedupNoSeen(rows, seenKeys, commitLogs, dedupedRows) ==
  [commitLogs |-> commitLogs, dedupedRows |-> dedupedRows \o rows]

RECURSIVE PoDedup(_, _, _, _)
\* the intra-batch dedup loop over mapped
PoDedup(rows, seenKeys, commitLogs, dedupedRows) ==
  IF rows = <<>> THEN [commitLogs |-> commitLogs, dedupedRows |-> dedupedRows]
  ELSE LET row == Head(rows)
           key == PoKeyOf(row.poNumber, row.itemNo)
       IN IF key \in seenKeys
            THEN PoDedup(Tail(rows), seenKeys,
                         Append(commitLogs, PoDuplicateLog(row)), dedupedRows)
            ELSE PoDedup(Tail(rows), seenKeys \cup {key}, commitLogs,
                         Append(dedupedRows, row))

\* prisma.procuredMed.findMany({ where: { OR: group.map(...) }, select: key })
PoFindMany(store, group) ==
  { [poNumber |-> s.poNumber, itemNo |-> s.itemNo] :
      s \in { t \in store : \E k \in 1..Len(group) :
                t.poNumber = group[k].poNumber /\ t.itemNo = group[k].itemNo } }

PoExistingKeys(found) == { PoKeyOf(item.poNumber, item.itemNo) : item \in found }

PoStoredRow(row) ==
  [poNumber |-> row.poNumber, itemNo |-> row.itemNo, poDate |-> row.poDate,
   manufacturer |-> row.manufacturer, quantity |-> row.quantity]

RECURSIVE PoDataToInsert(_, _)
\* dedupedRows.filter(not existing).map(stored fields)
PoDataToInsert(dedupedRows, existingKeys) ==
  IF dedupedRows = <<>> THEN <<>>
  ELSE LET row == Head(dedupedRows)
           rest == PoDataToInsert(Tail(dedupedRows), existingKeys)
       IN IF PoKeyOf(row.poNumber, row.itemNo) \in existingKeys
            THEN rest ELSE <<PoStoredRow(row)>> \o rest

\* PoResultLogs with the two outcomes of the existence test swapped
PoResultLogsSwapped(dedupedRows, existingKeys) ==
  [k \in 1..Len(dedupedRows) |->
     LET row == dedupedRows[k]
         exists == PoKeyOf(row.poNumber, row.itemNo) \in existingKeys
     IN [rowIndex |-> row.rowIndex, poNumber |-> row.poNumber,
         itemNo |-> row.itemNo,
         result |-> IF exists THEN "inserted" ELSE "skipped",
         reason |-> IF exists THEN "none" ELSE "already_exists"]]

\* the ledger entries pushed for the deduplicated rows
PoResultLogs(dedupedRows, existingKeys) ==
  [k \in 1..Len(dedupedRows) |->
     LET row == dedupedRows[k]
         exists == PoKeyOf(row.poNumber, row.itemNo) \in existingKeys
     IN [rowIndex |-> row.rowIndex, poNumber |-> row.poNumber,
         itemNo |-> row.itemNo,
         result |-> IF exists THEN "skipped" ELSE "inserted",
         reason |-> IF exists THEN "already_exists" ELSE "none"]]

\* procured_meds without its unique index: no row is refused
PoViolationsNone(store, data) == {}

\* rows of data refused by the unique index of procured_meds: the key is
\* stored already, or an earlier row of the same statement carries it
PoViolations(store, data) ==
  { data[k] : k \in { j \in 1..Len(data) :
      \/ PoStored(store, data[j].poNumber, data[j].itemNo) # {}
      \/ \E h \in 1..(j - 1) : data[h].poNumber = data[j].poNumber
                               /\ data[h].itemNo = data[j].itemNo } }

\* what the handler holds once the existing-key loop is over
PoAfterLookup(r, found) ==
  LET existingKeys == PoExistingKeys(found) IN
  [r EXCEPT !.pc = "insert", !.found = found,
            !.dataToInsert = PoDataToInsert(r.dedupedRows, existingKeys),
            !.logs = r.logs \o PoResultLogs(r.dedupedRows, existingKeys)]

\* POST arrives: schema check, mapping and intra-batch dedup, up to the first
\* awaited store call
StartPoCommit(i, rows) ==
  /\ CanStart(i)
  /\ LET r == [IdleRequest EXCEPT !.kind = "poCommit", !.rows = rows] IN
     IF ~PoCommitSchemaOk(rows)
       THEN req' = [req EXCEPT ![i] = Finish(r, ErrorResponse(400, "schema"))]
       ELSE LET mapped == PoMapped(rows)
                dd == PoDedup(mapped, {}, <<>>, <<>>)
                r2 == [r EXCEPT !.mapped = mapped, !.logs = dd.commitLogs,
                                !.dedupedRows = dd.dedupedRows, !.group = 1]
            IN req' = [req EXCEPT ![i] =
                 IF chunk(dd.dedupedRows, ChunkSize) = <<>>
                   THEN PoAfterLookup(r2, {})
                   ELSE [r2 EXCEPT !.pc = "lookup"]]
  /\ UNCHANGED <<procuredMeds, iar, iarLoaded, input, output, page>>

\* one existing-key query: the next group of at most ChunkSize rows
PoCommitLookup(i) ==
  /\ req[i].kind = "poCommit" /\ req[i].pc = "lookup"
  /\ LET r == req[i]
         groups == chunk(r.dedupedRows, ChunkSize)
         found == r.found \cup PoFindMany(procuredMeds, groups[r.group])
         r2 == [r EXCEPT !.queries = @ + 1]
     IN req' = [req EXCEPT ![i] =
          IF r.group < Len(groups)
            THEN [r2 EXCEPT !.found = found, !.group = @ + 1]
            ELSE PoAfterLookup(r2, found)]
  /\ UNCHANGED <<procuredMeds, iar, iarLoaded, input, output, page>>

PoResponseLog(log) ==
  [poNumber |-> log.poNumber, itemNo |-> log.itemNo, result |-> log.result,
   reason |-> log.reason]

\* the success body, from the storage layer's count and the ledger
PoCommitResponse(count, mapped, commitLogs) ==
  LET sortedLogs == SortByRowIndex(commitLogs) IN
  [status |-> 200, error |-> "", row |-> 0, insertedCount |-> count,
   totalReceived |-> Len(mapped),
   skippedDuplicates |->
     Cardinality({k \in 1..Len(sortedLogs) : sortedLogs[k].result = "skipped"}),
   logs |-> [k \in 1..Len(sortedLogs) |-> PoResponseLog(sortedLogs[k])]]

\* the bulk insert and the response; the handler has no try/catch, so a throw
\* of createMany leaves the request to the framework's 500
PoCommitInsert(i) ==
  /\ req[i].kind = "poCommit" /\ req[i].pc = "insert"
  /\ LET r == req[i]
         result == CreateMany(procuredMeds, r.dataToInsert,
                              PoViolations(procuredMeds, r.dataToInsert))
         r2 == [r EXCEPT !.queries = @ + 1, !.rejected = result.rejected,
                         !.inserted = result.store \ procuredMeds]
     IN /\ procuredMeds' = result.store
        /\ req' = [req EXCEPT ![i] =
             IF result.threw
               THEN Finish(r2, ErrorResponse(500, "unhandled"))
               ELSE Finish(r2, PoCommitResponse(result.count, r.mapped, r.logs))]
  /\ UNCHANGED <<iar, iarLoaded, input, output, page>>

\* -------------------------------------------- inspection batch commit
IarKeyOf(iarNumber, poNumber, itemNumber) ==
  iarNumber \o <<":", ":">> \o poNumber \o <<":", ":">> \o IntToStr(itemNumber)

\* `${row.poNumber}::${row.itemNumber}`, the key of the manufacturer map
PoItemKey(poNumber, itemNumber) == poNumber \o <<":", ":">> \o IntToStr(itemNumber)

\* a CommitSchema that takes any inspectedQuantity
IarCommitSchemaAnyQuantity(rows) ==
  \A k \in 1..Len(rows) :
    /\ rows[k].iarNumber # Null /\ Len(rows[k].iarNumber) >= 1
    /\ rows[k].dateOfInspection # Null /\ Len(rows[k].dateOfInspection) >= 1
    /\ rows[k].poNumber # Null /\ Len(rows[k].poNumber) >= 1

\* CommitSchema of the inspection commit; undeclared body fields are dropped
IarCommitSchemaOk(rows) ==
  \A k \in 1..Len(rows) :
    /\ rows[k].iarNumber # Null /\ Len(rows[k].iarNumber) >= 1
    /\ rows[k].dateOfInspection # Null /\ Len(rows[k].dateOfInspection) >= 1
    /\ rows[k].poNumber # Null /\ Len(rows[k].poNumber) >= 1
    /\ rows[k].inspectedQuantity >= 0

\* the date checks of one row in the mapping loop: which field fails, if any
IarRowDateError(r) ==
  IF parseDateOnly(r.dateOfInspection).kind = "null" THEN "Invalid inspection date"
  ELSE IF r.expirationDate # Null /\ r.expirationDate # <<>>
          /\ parseDateOnly(r.expirationDate).kind = "null"
    THEN "Invalid expiration date"
  ELSE ""

\* the mapping loop checking dateOfInspection only
IarFirstDateErrorInspectionOnly(rows) ==
  LET bad == {k \in 1..Len(rows) :
                parseDateOnly(rows[k].dateOfInspection).kind = "null"} IN
  IF bad = {} THEN 0 ELSE CHOOSE k \in bad : \A j \in bad : k <= j

\* index of the first row the mapping loop returns on, 0 when it completes
IarFirstDateError(rows) ==
  LET bad == {k \in 1..Len(rows) : IarRowDateError(rows[k]) # ""} IN
  IF bad = {} THEN 0 ELSE CHOOSE k \in bad : \A j \in bad : k <= j

\* mapped.push({...}) for every row
IarMapped(rows) ==
  [k \in 1..Len(rows) |->
     [iarNumber |-> Trim(rows[k].iarNumber),
      dateOfInspection |-> parseDateOnly(rows[k].dateOfInspection),
      poNumber |-> Trim(rows[k].poNumber),
      itemNumber |-> rows[k].itemNumber,
      inspectedQuantity |-> rows[k].inspectedQuantity,
      expirationDate |->
        IF rows[k].expirationDate # Null /\ rows[k].expirationDate # <<>>
          THEN parseDateOnly(rows[k].expirationDate) ELSE NullDate,
      rowIndex |-> k - 1]]

IarDuplicateLog(row) ==
  [rowIndex |-> row.rowIndex, iarNumber |-> row.iarNumber,
   poNumber |-> row.poNumber, itemNumber |-> row.itemNumber,
   result |-> "skipped", reason |-> "duplicate_in_upload"]

RECURSIVE IarDedupUnlogged(_, _, _, _)
\* IarDedup dropping a repeated key without a ledger entry
IarDedupUnlogged(rows, seen, logs, dedupedRows) ==
  IF rows = <<>> THEN [logs |-> logs, dedupedRows |-> dedupedRows]
  ELSE LET row == Head(rows)
           key == row.iarNumber \o <<":", ":">> \o row.poNumber \o <<":", ":">>
                    \o IntToStr(row.itemNumber)
       IN IF key \in seen
            THEN IarDedupUnlogged(Tail(rows), seen, logs, dedupedRows)
            ELSE IarDedupUnlogged(Tail(rows), seen \cup {key}, logs,
                                  Append(dedupedRows, row))

RECURSIVE IarDedup(_, _, _, _)
\* the intra-batch dedup loop over mapped
IarDedup(rows, seen, logs, dedupedRows) ==
  IF rows = <<>> THEN [logs |-> logs, dedupedRows |-> dedupedRows]
  ELSE LET row == Head(rows)
           key == IarKeyOf(row.iarNumber, row.poNumber, row.itemNumber)
       IN IF key \in seen
            THEN IarDedup(Tail(rows), seen, Append(logs, IarDuplicateLog(row)),
                          dedupedRows)
            ELSE IarDedup(Tail(rows), seen \cup {key}, logs,
                          Append(dedupedRows, row))

RECURSIVE UniquePoItem(_, _)
\* the Set uniquePoItem as the sequence of its keys in insertion order
UniquePoItem(dedupedRows, acc) ==
  IF dedupedRows = <<>> THEN acc
  ELSE LET key == PoItemKey(Head(dedupedRows).poNumber, Head(dedupedRows).itemNumber)
       IN UniquePoItem(Tail(dedupedRows),
                       IF key \in Range(acc) THEN acc ELSE Append(acc, key))

\* const [poNumber, itemNumber] = key.split("::")
PoItemPairOf(key) ==
  LET parts == Split(key, <<":", ":">>) IN
  [poNumber |-> parts[1], itemNumber |-> Number(parts[2])]

PoItemPairs(dedupedRows) ==
  LET keys == UniquePoItem(dedupedRows, <<>>) IN
  [k \in 1..Len(keys) |-> PoItemPairOf(keys[k])]

\* prisma.procuredMed.findMany over a group of pairs, selecting the key and
\* the manufacturer; a NaN item number equals no stored number
ManufacturerFindMany(store, group) ==
  { [poNumber |-> s.poNumber, itemNo |-> s.itemNo, manufacturer |-> s.manufacturer] :
      s \in { t \in store : \E k \in 1..Len(group) :
                /\ t.poNumber = group[k].poNumber
                /\ ~group[k].itemNumber.nan
                /\ t.itemNo = group[k].itemNumber.val } }

\* manufacturerByPoItem.set(key, manufacturer?.trim() || null) per found row
ManufacturerMapSet(map, found) ==
  LET new == { [key |-> PoItemKey(row.poNumber, row.itemNo),
                value |-> TrimOrNull(row.manufacturer)] : row \in found }
  IN { e \in map : \A n \in new : n.key # e.key } \cup new

\* manufacturerByPoItem.get(key) ?? null
ManufacturerMapGet(map, key) ==
  IF \E e \in map : e.key = key
    THEN (CHOOSE e \in map : e.key = key).value
    ELSE Null

\* iarDelegate.findMany({ where: { OR: group.map(...) }, select: key })
IarFindMany(store, group) ==
  { [iarNumber |-> s.iarNumber, poNumber |-> s.poNumber, itemNumber |-> s.itemNumber] :
      s \in { t \in store : \E k \in 1..Len(group) :
                /\ t.iarNumber = group[k].iarNumber
                /\ t.poNumber = group[k].poNumber
                /\ t.itemNumber = group[k].itemNumber } }

IarExistingKeys(found) ==
  { IarKeyOf(row.iarNumber, row.poNumber, row.itemNumber) : row \in found }

IarStoredRow(row, manufacturerByPoItem) ==
  [iarNumber |-> row.iarNumber, dateOfInspection |-> row.dateOfInspection,
   poNumber |-> row.poNumber, itemNumber |-> row.itemNumber,
   inspectedQuantity |-> row.inspectedQuantity,
   manufacturer |->
     ManufacturerMapGet(manufacturerByPoItem,
                        PoItemKey(row.poNumber, row.itemNumber)),
   expirationDate |-> row.expirationDate]

\* IarDataToInsert without the filter on the existing keys
IarDataToInsertUnfiltered(dedupedRows, existing, manufacturerByPoItem) ==
  [k \in 1..Len(dedupedRows) |-> IarStoredRow(dedupedRows[k], manufacturerByPoItem)]

RECURSIVE IarDataToInsert(_, _, _)
\* dedupedRows.filter(not existing).map(stored fields and manufacturer)
IarDataToInsert(dedupedRows, existing, manufacturerByPoItem) ==
  IF dedupedRows = <<>> THEN <<>>
  ELSE LET row == Head(dedupedRows)
           rest == IarDataToInsert(Tail(dedupedRows), existing, manufacturerByPoItem)
       IN IF IarKeyOf(row.iarNumber, row.poNumber, row.itemNumber) \in existing
            THEN rest
            ELSE <<IarStoredRow(row, manufacturerByPoItem)>> \o rest

\* the ledger entries pushed for the deduplicated rows
IarResultLogs(dedupedRows, existing) ==
  [k \in 1..Len(dedupedRows) |->
     LET row == dedupedRows[k]
         alreadyExists ==
           IarKeyOf(row.iarNumber, row.poNumber, row.itemNumber) \in existing
     IN [rowIndex |-> row.rowIndex, iarNumber |-> row.iarNumber,
         poNumber |-> row.poNumber, itemNumber |-> row.itemNumber,
         result |-> IF alreadyExists THEN "skipped" ELSE "inserted",
         reason |-> IF alreadyExists THEN "already_exists" ELSE "none"]]

\* rows of data refused by the unique index of iar
IarViolations(store, data) ==
  { data[k] : k \in { j \in 1..Len(data) :
      \/ IarStored(store, data[j].iarNumber, data[j].poNumber,
                   data[j].itemNumber) # {}
      \/ \E h \in 1..(j - 1) : /\ data[h].iarNumber = data[j].iarNumber
                               /\ data[h].poNumber = data[j].poNumber
                               /\ data[h].itemNumber = data[j].itemNumber } }

\* what the handler holds once the existing-key loop is over
IarAfterLookup(r, found) ==
  LET existing == IarExistingKeys(found) IN
  [r EXCEPT !.pc = "insert", !.found = found,
            !.dataToInsert =
              IarDataToInsert(r.dedupedRows, existing, r.manufacturerByPoItem),
            !.logs = r.logs \o IarResultLogs(r.dedupedRows, existing)]

\* POST arrives: schema check, delegate check, the mapping loop with its date
\* checks, the dedup loop and the pairs to look up, up to the first awaited call
StartIarCommit(i, rows) ==
  /\ CanStart(i)
  /\ LET r == [IdleRequest EXCEPT !.kind = "iarCommit", !.rows = rows]
         bad == IarFirstDateError(rows)
     IN
     IF ~IarCommitSchemaOk(rows)
       THEN req' = [req EXCEPT ![i] = Finish(r, ErrorResponse(400, "schema"))]
     ELSE IF ~iarLoaded
       THEN req' = [req EXCEPT ![i] =
              Finish(r, ErrorResponse(500, "Prisma client has no IAR model loaded"))]
     ELSE IF bad # 0
       THEN req' = [req EXCEPT ![i] =
              Finish(r, RowErrorResponse(400, IarRowDateError(rows[bad]),
                                         (bad - 1) + 2))]
     ELSE LET mapped == IarMapped(rows)
              dd == IarDedup(mapped, {}, <<>>, <<>>)
              r2 == [r EXCEPT !.mapped = mapped, !.logs = dd.logs,
                              !.dedupedRows = dd.dedupedRows, !.group = 1]
          IN req' = [req EXCEPT ![i] =
               IF chunk(PoItemPairs(dd.dedupedRows), ChunkSize) # <<>>
                 THEN [r2 EXCEPT !.pc = "mfr"]
               ELSE IF chunk(dd.dedupedRows, ChunkSize) # <<>>
                 THEN [r2 EXCEPT !.pc = "lookup"]
               ELSE IarAfterLookup(r2, {})]
  /\ UNCHANGED <<procuredMeds, iar, iarLoaded, input, output, page>>

\* one manufacturer query: the next group of at most ChunkSize pairs
IarCommitMfrLookup(i) ==
  /\ req[i].kind = "iarCommit" /\ req[i].pc = "mfr"
  /\ LET r == req[i]
         groups == chunk(PoItemPairs(r.dedupedRows), ChunkSize)
         found == ManufacturerFindMany(procuredMeds, groups[r.group])
         r2 == [r EXCEPT !.queries = @ + 1,
                         !.manufacturerByPoItem = ManufacturerMapSet(@, found),
                         !.lineItems = IF r.group = 1 THEN procuredMeds ELSE @]
     IN req' = [req EXCEPT ![i] =
          IF r.group < Len(groups) THEN [r2 EXCEPT !.group = @ + 1]
          ELSE IF chunk(r.dedupedRows, ChunkSize) # <<>>
            THEN [r2 EXCEPT !.pc = "lookup", !.group = 1]
          ELSE IarAfterLookup(r2, {})]
  /\ UNCHANGED <<procuredMeds, iar, iarLoaded, input, output, page>>

\* one existing-key query: the next group of at most ChunkSize rows
IarCommitLookup(i) ==
  /\ req[i].kind = "iarCommit" /\ req[i].pc = "lookup"
  /\ LET r == req[i]
         groups == chunk(r.dedupedRows, ChunkSize)
         found == r.found \cup IarFindMany(iar, groups[r.group])
         r2 == [r EXCEPT !.queries = @ + 1]
     IN req' = [req EXCEPT ![i] =
          IF r.group < Len(groups)
            THEN [r2 EXCEPT !.found = found, !.group = @ + 1]
            ELSE IarAfterLookup(r2, found)]
  /\ UNCHANGED <<procuredMeds, iar, iarLoaded, input, output, page>>

IarResponseLog(log) ==
  [iarNumber |-> log.iarNumber, poNumber |-> log.poNumber,
   itemNumber |-> log.itemNumber, result |-> log.result, reason |-> log.reason]

\* the success body, from the storage layer's count and the ledger
IarCommitResponse(count, mapped, logs) ==
  LET sortedLogs == SortByRowIndex(logs) IN
  [status |-> 200, error |-> "", row |-> 0, insertedCount |-> count,
   totalReceived |-> Len(mapped),
   skippedDuplicates |->
     Cardinality({k \in 1..Len(sortedLogs) : sortedLogs[k].result = "skipped"}),
   logs |-> [k \in 1..Len(sortedLogs) |-> IarResponseLog(sortedLogs[k])]]

\* the bulk insert and the response; a throw of createMany is caught and
\* answered with a 500 carrying the error's message
IarCommitInsert(i) ==
  /\ req[i].kind = "iarCommit" /\ req[i].pc = "insert"
  /\ LET r == req[i]
         result == CreateMany(iar, r.dataToInsert,
                              IarViolations(iar, r.dataToInsert))
         r2 == [r EXCEPT !.queries = @ + 1, !.rejected = result.rejected,
                         !.inserted = result.store \ iar]
     IN /\ iar' = result.store
        /\ req' = [req EXCEPT ![i] =
             IF result.threw
               THEN Finish(r2, ErrorResponse(500, "Unique constraint failed"))
               ELSE Finish(r2, IarCommitResponse(result.count, r.mapped, r.logs))]
  /\ UNCHANGED <<procuredMeds, iarLoaded, input, output, page>>

\* ---------------------------------------- manual purchase-order insert
\* z.string().trim().min(1).nullable().optional(): null passes, text must keep
\* at least one character when trimmed
NullableTrimmedOk(s) == s = Null \/ Len(Trim(s)) >= 1

\* the value the schema hands on: trimmed text, or null
NullableTrimmed(s) == IF s = Null THEN Null ELSE Trim(s)

\* ManualInsertSchema
PoManualSchemaOk(b) ==
  /\ b.poNumber # Null /\ Len(Trim(b.poNumber)) >= 1
  /\ b.itemNo >= 1
  /\ NullableTrimmedOk(b.poDate)
  /\ NullableTrimmedOk(b.manufacturer)

\* parsed.data of the manual purchase-order insert
PoManualData(b) ==
  [poNumber |-> Trim(b.poNumber), itemNo |-> b.itemNo,
   poDate |-> NullableTrimmed(b.poDate),
   manufacturer |-> NullableTrimmed(b.manufacturer), quantity |-> b.quantity]

\* data.poDate ? new Date(`${data.poDate}T00:00:00`) : null
PoManualDate(poDate) ==
  IF poDate = Null \/ poDate = <<>> THEN NullDate
  ELSE NewDate(poDate \o MidnightSuffix)

\* POST arrives: schema check, up to the awaited findFirst
StartPoManual(i, b) ==
  /\ CanStart(i)
  /\ LET r == [IdleRequest EXCEPT !.kind = "poManual", !.rows = <<b>>] IN
     req' = [req EXCEPT ![i] =
       IF ~PoManualSchemaOk(b)
         THEN Finish(r, ErrorResponse(400, "Invalid input"))
         ELSE [r EXCEPT !.pc = "find", !.mapped = <<PoManualData(b)>>]]
  /\ UNCHANGED <<procuredMeds, iar, iarLoaded, input, output, page>>

\* PoManualFind without the conflict answer: the insert goes on to create
PoManualFindNoConflict(i) ==
  /\ req[i].kind = "poManual" /\ req[i].pc = "find"
  /\ LET r == [req[i] EXCEPT !.queries = @ + 1]
         data == r.mapped[1]
         poDate == PoManualDate(data.poDate)
     IN req' = [req EXCEPT ![i] =
          IF poDate.kind = "invalid"
            THEN Finish(r, ErrorResponse(400, "Invalid PO date"))
          ELSE [r EXCEPT !.pc = "create",
                         !.dataToInsert = <<[data EXCEPT !.poDate = poDate]>>]]
  /\ UNCHANGED <<procuredMeds, iar, iarLoaded, input, output, page>>

\* findFirst on the key: 409 when a row is there, then the date check
PoManualFind(i) ==
  /\ req[i].kind = "poManual" /\ req[i].pc = "find"
  /\ LET r == [req[i] EXCEPT !.queries = @ + 1]
         data == r.mapped[1]
         existing == PoStored(procuredMeds, data.poNumber, data.itemNo)
         poDate == PoManualDate(data.poDate)
     IN req' = [req EXCEPT ![i] =
          IF existing # {}
            THEN Finish([r EXCEPT !.found = existing],
                        ErrorResponse(409, "PO number and item number already exist"))
          ELSE IF poDate.kind = "invalid"
            THEN Finish(r, ErrorResponse(400, "Invalid PO date"))
          ELSE [r EXCEPT !.pc = "create",
                         !.dataToInsert = <<[data EXCEPT !.poDate = poDate]>>]]
  /\ UNCHANGED <<procuredMeds, iar, iarLoaded, input, output, page>>

\* prisma.<table>.create({ data }): the row is stored unless the unique index
\* refuses it, and then the call throws
Create(store, data, violations) ==
  IF violations # {}
    THEN [threw |-> TRUE, store |-> store, rejected |-> violations]
    ELSE [threw |-> FALSE, store |-> store \cup Range(data), rejected |-> {}]

\* create and the response; the handler has no try/catch
PoManualCreate(i) ==
  /\ req[i].kind = "poManual" /\ req[i].pc = "create"
  /\ LET r == req[i]
         result == Create(procuredMeds, r.dataToInsert,
                          PoViolations(procuredMeds, r.dataToInsert))
         r2 == [r EXCEPT !.queries = @ + 1, !.rejected = result.rejected,
                         !.inserted = result.store \ procuredMeds]
     IN /\ procuredMeds' = result.store
        /\ req' = [req EXCEPT ![i] =
             IF result.threw
               THEN Finish(r2, ErrorResponse(500, "unhandled"))
               ELSE Finish(r2, [NoResponse EXCEPT !.status = 200])]
  /\ UNCHANGED <<iar, iarLoaded, input, output, page>>

\* ------------------------------------------------ manual inspection insert
\* ManualIarInsertSchema; undeclared body fields are dropped
IarManualSchemaOk(b) ==
  /\ b.iarNumber # Null /\ Len(Trim(b.iarNumber)) >= 1
  /\ b.dateOfInspection # Null /\ Len(Trim(b.dateOfInspection)) >= 1
  /\ b.poNumber # Null /\ Len(Trim(b.poNumber)) >= 1
  /\ b.itemNumber >= 1
  /\ b.inspectedQuantity >= 0
  /\ NullableTrimmedOk(b.expirationDate)

\* parsed.data of the manual inspection insert
IarManualData(b) ==
  [iarNumber |-> Trim(b.iarNumber), dateOfInspection |-> Trim(b.dateOfInspection),
   poNumber |-> Trim(b.poNumber), itemNumber |-> b.itemNumber,
   inspectedQuantity |-> b.inspectedQuantity,
   expirationDate |-> NullableTrimmed(b.expirationDate)]

\* POST arrives: schema check and the two date checks, up to the awaited
\* findFirst on procured_meds
StartIarManual(i, b) ==
  /\ CanStart(i)
  /\ LET r == [IdleRequest EXCEPT !.kind = "iarManual", !.rows = <<b>>]
         data == IarManualData(b)
     IN req' = [req EXCEPT ![i] =
       IF ~IarManualSchemaOk(b)
         THEN Finish(r, ErrorResponse(400, "Invalid input"))
       ELSE IF parseDateOnly(data.dateOfInspection).kind = "null"
         THEN Finish(r, ErrorResponse(400, "Invalid inspection date"))
       ELSE IF data.expirationDate # Null /\ data.expirationDate # <<>>
               /\ parseDateOnly(data.expirationDate).kind = "null"
         THEN Finish(r, ErrorResponse(400, "Invalid expiration date"))
       ELSE [r EXCEPT !.pc = "procured", !.mapped = <<data>>]]
  /\ UNCHANGED <<procuredMeds, iar, iarLoaded, input, output, page>>

\* the row the manual inspection insert creates
IarManualRow(data, manufacturer) ==
  [iarNumber |-> data.iarNumber,
   dateOfInspection |-> parseDateOnly(data.dateOfInspection),
   poNumber |-> data.poNumber, itemNumber |-> data.itemNumber,
   inspectedQuantity |-> data.inspectedQuantity, manufacturer |-> manufacturer,
   expirationDate |->
     IF data.expirationDate # Null /\ data.expirationDate # <<>>
       THEN parseDateOnly(data.expirationDate) ELSE NullDate]

\* procured?.manufacturer?.trim() || null of the line item found
ManualManufacturer(procured) ==
  IF procured = {} THEN Null
  ELSE TrimOrNull((CHOOSE s \in procured : TRUE).manufacturer)

\* findFirst on procured_meds for the manufacturer, with no delegate check
IarManualProcuredUnchecked(i) ==
  /\ req[i].kind = "iarManual" /\ req[i].pc = "procured"
  /\ LET r == [req[i] EXCEPT !.queries = @ + 1, !.lineItems = procuredMeds]
         data == r.mapped[1]
         procured == PoStored(procuredMeds, data.poNumber, data.itemNumber)
     IN req' = [req EXCEPT ![i] =
          [r EXCEPT !.pc = "find",
             !.dataToInsert = <<IarManualRow(data, ManualManufacturer(procured))>>]]
  /\ UNCHANGED <<procuredMeds, iar, iarLoaded, input, output, page>>

\* findFirst on procured_meds for the manufacturer, then the delegate check
IarManualProcured(i) ==
  /\ req[i].kind = "iarManual" /\ req[i].pc = "procured"
  /\ LET r == [req[i] EXCEPT !.queries = @ + 1, !.lineItems = procuredMeds]
         data == r.mapped[1]
         procured == PoStored(procuredMeds, data.poNumber, data.itemNumber)
     IN req' = [req EXCEPT ![i] =
          IF ~iarLoaded
            THEN Finish(r, ErrorResponse(500, "Prisma client has no IAR model loaded"))
            ELSE [r EXCEPT !.pc = "find",
                   !.dataToInsert =
                     <<IarManualRow(data, ManualManufacturer(procured))>>]]
  /\ UNCHANGED <<procuredMeds, iar, iarLoaded, input, output, page>>

\* findFirst on the inspection key: 409 when a row is there
IarManualFind(i) ==
  /\ req[i].kind = "iarManual" /\ req[i].pc = "find"
  /\ LET r == [req[i] EXCEPT !.queries = @ + 1]
         data == r.mapped[1]
         existing == IarStored(iar, data.iarNumber, data.poNumber, data.itemNumber)
     IN req' = [req EXCEPT ![i] =
          IF existing # {}
            THEN Finish([r EXCEPT !.found = existing],
                   ErrorResponse(409, "IAR number, PO number, and item number already exist"))
            ELSE [r EXCEPT !.pc = "create"]]
  /\ UNCHANGED <<procuredMeds, iar, iarLoaded, input, output, page>>

\* create and the response; a throw is caught and answered with a 500
IarManualCreate(i) ==
  /\ req[i].kind = "iarManual" /\ req[i].pc = "create"
  /\ LET r == req[i]
         result == Create(iar, r.dataToInsert, IarViolations(iar, r.dataToInsert))
         r2 == [r EXCEPT !.queries = @ + 1, !.rejected = result.rejected,
                         !.inserted = result.store \ iar]
     IN /\ iar' = result.store
        /\ req' = [req EXCEPT ![i] =
             IF result.threw
               THEN Finish(r2, ErrorResponse(500, "Unique constraint failed"))
               ELSE Finish(r2, [NoResponse EXCEPT !.status = 200])]
  /\ UNCHANGED <<procuredMeds, iarLoaded, input, output, page>>

\* ------------------------------------------------------------ specification
\* the next request arrives, of one of the four kinds, with any body
PoCommitRequest(i) == CanStart(i) /\ \E rows \in PoBatches : StartPoCommit(i, rows)
IarCommitRequest(i) == CanStart(i) /\ \E rows \in IarBatches : StartIarCommit(i, rows)
PoManualRequest(i) == CanStart(i) /\ \E b \in PoManualPool : StartPoManual(i, b)
IarManualRequest(i) == CanStart(i) /\ \E b \in IarRowPool : StartIarManual(i, b)

Next ==
  \/ \E i \in Requests : PoCommitRequest(i)
  \/ \E i \in Requests : PoCommitLookup(i)
  \/ \E i \in Requests : PoCommitInsert(i)
  \/ \E i \in Requests : IarCommitRequest(i)
  \/ \E i \in Requests : IarCommitMfrLookup(i)
  \/ \E i \in Requests : IarCommitLookup(i)
  \/ \E i \in Requests : IarCommitInsert(i)
  \/ \E i \in Requests : PoManualRequest(i)
  \/ \E i \in Requests : PoManualFind(i)
  \/ \E i \in Requests : PoManualCreate(i)
  \/ \E i \in Requests : IarManualRequest(i)
  \/ \E i \in Requests : IarManualProcured(i)
  \/ \E i \in Requests : IarManualFind(i)
  \/ \E i \in Requests : IarManualCreate(i)

Spec == Init /\ [][Next]_vars

\* ------------------------------------------------------------------ claims
IsCommit(r) == r.kind \in {"poCommit", "iarCommit"}

\* the handler has assembled its ledger and its bulk-insert payload
Assembled(r) ==
  /\ IsCommit(r)
  /\ r.pc \in {"insert", "done"}
  /\ Len(r.mapped) = Len(r.rows)

Succeeded(r) == IsCommit(r) /\ r.pc = "done" /\ r.response.status = 200

\* two prepared rows carry the same composite key
SameKey(r, a, b) ==
  IF r.kind = "poCommit"
    THEN a.poNumber = b.poNumber /\ a.itemNo = b.itemNo
    ELSE a.iarNumber = b.iarNumber /\ a.poNumber = b.poNumber
         /\ a.itemNumber = b.itemNumber

\* the payload row the handler builds from a prepared row
PayloadRowOf(r, row) ==
  IF r.kind = "poCommit" THEN PoStoredRow(row)
  ELSE IarStoredRow(row, r.manufacturerByPoItem)

\* indices of the ledger entries of the row submitted at position k
LogsOfRow(r, k) == {n \in 1..Len(r.logs) : r.logs[n].rowIndex = k - 1}

\* indices of the payload rows that carry the key of a prepared row
PayloadOfKey(r, row) ==
  {n \in 1..Len(r.dataToInsert) : SameKey(r, r.dataToInsert[n], row)}

\* the lowest position at which the key of position k was submitted
FirstOfKey(r, k) ==
  CHOOSE j \in 1..k :
    /\ SameKey(r, r.mapped[j], r.mapped[k])
    /\ \A h \in 1..(j - 1) : ~SameKey(r, r.mapped[h], r.mapped[k])

\* C1: in a batch commit of either pipeline, every row whose composite key was
\* submitted at a lower position is logged skipped/duplicate_in_upload and is
\* not among the rows considered for insertion; the payload holds at most one
\* row of a key, built from the key's first row, whether or not the key is stored.
C1_FirstOccurrenceWins ==
  \A i \in Requests :
    Assembled(req[i]) =>
      \A k \in 1..Len(req[i].mapped) :
        LET r == req[i]
            j == FirstOfKey(r, k)
        IN /\ \A n \in PayloadOfKey(r, r.mapped[k]) :
                r.dataToInsert[n] = PayloadRowOf(r, r.mapped[j])
           /\ Cardinality(PayloadOfKey(r, r.mapped[k])) <= 1
           /\ j < k =>
                /\ \A n \in 1..Len(r.dedupedRows) : r.dedupedRows[n].rowIndex # k - 1
                /\ \E n \in LogsOfRow(r, k) :
                     /\ r.logs[n].result = "skipped"
                     /\ r.logs[n].reason = "duplicate_in_upload"

\* a commit of request i succeeded on a batch whose positions 1 and 2 carry one
\* key in different rows, the first of them stored by this commit
DuplicateInserted(i) ==
  LET r == req[i] IN
  /\ Succeeded(r) /\ Len(r.mapped) >= 2
  /\ SameKey(r, r.mapped[1], r.mapped[2])
  /\ r.rows[1] # r.rows[2]
  /\ PayloadRowOf(r, r.mapped[1]) \in r.inserted

\* C1 witness: both pipelines have committed such a batch
C1_Witness ==
  /\ \E i \in Requests : req[i].kind = "poCommit" /\ DuplicateInserted(i)
  /\ \E i \in Requests : req[i].kind = "iarCommit" /\ DuplicateInserted(i)

\* the key fields of a prepared row, as an existing-key query returns them
KeyOfRow(r, row) ==
  IF r.kind = "poCommit"
    THEN [poNumber |-> row.poNumber, itemNo |-> row.itemNo]
    ELSE [iarNumber |-> row.iarNumber, poNumber |-> row.poNumber,
          itemNumber |-> row.itemNumber]

\* C2: in a batch commit, a deduplicated row whose key an existing-key query
\* returned has the one ledger entry skipped/already_exists and no payload row;
\* a deduplicated row whose key was not returned has the one ledger entry
\* inserted, without reason, and exactly one payload row.
C2_ExistingSkippedOthersInserted ==
  \A i \in Requests :
    Assembled(req[i]) =>
      \A n \in 1..Len(req[i].dedupedRows) :
        LET r == req[i]
            row == r.dedupedRows[n]
            entries == LogsOfRow(r, row.rowIndex + 1)
        IN /\ Cardinality(entries) = 1
           /\ IF KeyOfRow(r, row) \in r.found
                THEN /\ \A e \in entries : /\ r.logs[e].result = "skipped"
                                           /\ r.logs[e].reason = "already_exists"
                     /\ PayloadOfKey(r, row) = {}
                ELSE /\ \A e \in entries : /\ r.logs[e].result = "inserted"
                                           /\ r.logs[e].reason = "none"
                     /\ Cardinality(PayloadOfKey(r, row)) = 1

\* a commit of request i succeeded on a batch with one key found stored and
\* one key stored by this commit
ExistingAndNew(i) ==
  LET r == req[i] IN
  /\ Succeeded(r)
  /\ \E n \in 1..Len(r.dedupedRows) : KeyOfRow(r, r.dedupedRows[n]) \in r.found
  /\ \E n \in 1..Len(r.dedupedRows) :
       /\ KeyOfRow(r, r.dedupedRows[n]) \notin r.found
       /\ PayloadRowOf(r, r.dedupedRows[n]) \in r.inserted

\* C2 witness: an inspection commit skipped a stored key and inserted a new one
C2_Witness == \E i \in Requests : req[i].kind = "iarCommit" /\ ExistingAndNew(i)

\* C3: every batch commit that answers with success reports
\* insertedCount + skippedDuplicates = totalReceived.
C3_CountsAddUp ==
  \A i \in Requests :
    Succeeded(req[i]) =>
      req[i].response.insertedCount + req[i].response.skippedDuplicates
        = req[i].response.totalReceived

\* C3 witness: the three-row scenario, one row inserted, one a duplicate in the
\* upload, one already stored
C3_Witness ==
  \E i \in Requests :
    /\ Succeeded(req[i])
    /\ req[i].response.totalReceived = 3
    /\ req[i].response.insertedCount = 1
    /\ req[i].response.skippedDuplicates = 2
    /\ \E n \in 1..3 : req[i].response.logs[n].reason = "duplicate_in_upload"
    /\ \E n \in 1..3 : req[i].response.logs[n].reason = "already_exists"

\* C4: in every successful batch commit the returned ledger has totalReceived
\* entries, one for each submitted row and none twice.
C4_OneEntryPerRow ==
  \A i \in Requests :
    Succeeded(req[i]) =>
      /\ Len(req[i].response.logs) = req[i].response.totalReceived
      /\ req[i].response.totalReceived = Len(req[i].rows)
      /\ \A k \in 1..Len(req[i].rows) : Cardinality(LogsOfRow(req[i], k)) = 1

\* C4 witness: an inspection commit succeeded on three rows of which one is a
\* duplicate in the upload
C4_Witness ==
  \E i \in Requests :
    /\ req[i].kind = "iarCommit" /\ Succeeded(req[i])
    /\ Len(req[i].rows) = 3
    /\ \E n \in 1..3 : req[i].response.logs[n].reason = "duplicate_in_upload"
    /\ \E n \in 1..3 : req[i].response.logs[n].result = "inserted"

\* the key fields of the row submitted at position k, as submitted
SubmittedKey(r, k) == KeyOfRow(r, r.rows[k])

\* the key fields of the row submitted at position k, as the handler prepared
\* them (the inspection commit trims iarNumber and poNumber)
PreparedKey(r, k) == KeyOfRow(r, r.mapped[k])

\* the key fields of the k-th returned ledger entry
ReturnedKey(r, k) == KeyOfRow(r, r.response.logs[k])

C6_UniqueKeys ==
  /\ \A a, b \in procuredMeds :
       a.poNumber = b.poNumber /\ a.itemNo = b.itemNo => a = b
  /\ \A a, b \in iar :
       a.iarNumber = b.iarNumber /\ a.poNumber = b.poNumber
         /\ a.itemNumber = b.itemNumber => a = b

\* C6 witness: a batch commit and a manual insert ran into each other on one
\* key: one of them stored the row, the unique index refused the other's
C6_Witness ==
  \E i, j \in Requests :
    /\ {req[i].kind, req[j].kind} = {"poCommit", "poManual"}
    /\ req[i].inserted # {} /\ req[j].rejected # {}
    /\ \E a \in req[i].inserted, b \in req[j].rejected :
         a.poNumber = b.poNumber /\ a.itemNo = b.itemNo /\ a # b

\* the ledger entries of request r that say inserted
InsertedEntries(r) == {n \in 1..Len(r.logs) : r.logs[n].result = "inserted"}

\* C7 (as claimed): when the unique index refuses a row of a commit's bulk
\* insert (a concurrent request stored the key after the existing-key query),
\* the commit still answers with success, its other new rows are stored, and
\* insertedCount counts only those.
C7_BulkInsertToleratesRace ==
  \A i \in Requests :
    (IsCommit(req[i]) /\ req[i].pc = "done" /\ req[i].rejected # {}) =>
      /\ req[i].response.status = 200
      /\ req[i].inserted = Range(req[i].dataToInsert) \ req[i].rejected
      /\ req[i].response.insertedCount = Cardinality(req[i].inserted)
      /\ req[i].response.insertedCount < Cardinality(InsertedEntries(req[i]))

\* a non-empty date text that the strict parser refuses
StrictDateFails(v) ==
  /\ v # Null /\ v # <<>>
  /\ LET t == Trim(v) IN
     \/ t = <<>>
     \/ NewDate(IF IsoDateShape(t) THEN t \o MidnightSuffix ELSE t).kind = "invalid"

\* a submitted batch that the handler's checks ahead of the dates let through
\* and in which some row has a date field failing strict parsing
HasBadDate(r) ==
  IF r.kind = "poCommit"
    THEN /\ PoCommitSchemaOk(r.rows)
         /\ \E k \in 1..Len(r.rows) : StrictDateFails(r.rows[k].poDate)
    ELSE /\ IarCommitSchemaOk(r.rows) /\ iarLoaded
         /\ \E k \in 1..Len(r.rows) :
              \/ StrictDateFails(r.rows[k].dateOfInspection)
              \/ StrictDateFails(r.rows[k].expirationDate)

\* C8 (as claimed): in both commit pipelines a row with a non-empty date field
\* (poDate; dateOfInspection; expirationDate) that fails strict parsing makes
\* the commit answer 400 and store nothing.
C8_BadDateIsClientError ==
  \A i \in Requests :
    (IsCommit(req[i]) /\ HasBadDate(req[i]) /\ req[i].pc = "done") =>
      /\ req[i].response.status = 400
      /\ req[i].inserted = {}

\* C9: an inspection commit with a row whose dateOfInspection or expirationDate
\* fails strict parsing is answered 400 before any store call: no lookup is
\* issued and no row of the batch is stored.
C9_BadDateAbortsBatch ==
  \A i \in Requests :
    (req[i].kind = "iarCommit" /\ HasBadDate(req[i])) =>
      /\ req[i].pc = "done"
      /\ req[i].response.status = 400
      /\ req[i].response.error \in {"Invalid inspection date", "Invalid expiration date"}
      /\ req[i].queries = 0
      /\ req[i].inserted = {}

\* C9 witness: a rejected inspection commit whose first row is valid and whose
\* key is not in the store afterwards, the failing row coming later
C9_Witness ==
  \E i \in Requests :
    /\ req[i].kind = "iarCommit" /\ HasBadDate(req[i])
    /\ req[i].pc = "done" /\ req[i].response.row >= 3
    /\ ~StrictDateFails(req[i].rows[1].dateOfInspection)
    /\ ~StrictDateFails(req[i].rows[1].expirationDate)
    /\ IarStored(iar, Trim(req[i].rows[1].iarNumber), Trim(req[i].rows[1].poNumber),
                 req[i].rows[1].itemNumber) = {}
    /\ \E j \in Requests : req[j].inserted # {}

\* the manufacturer of the line item of (poNumber, itemNo), trimmed; null when
\* it is blank or there is no such line item
ManufacturerOfLineItem(store, poNumber, itemNo) ==
  LET items == {s \in store : s.poNumber = poNumber /\ s.itemNo = itemNo} IN
  IF items = {} THEN Null
  ELSE LET m == (CHOOSE s \in items : TRUE).manufacturer IN
       IF m = Null \/ Trim(m) = <<>> THEN Null ELSE Trim(m)

\* C10 (as claimed): every InspectionRecord stored by a batch commit or a manual
\* insert carries the trimmed manufacturer of the line item of its
\* (poNumber, itemNumber) at insert time, null when there is none.
C10_ManufacturerAtInsertTime ==
  [][\A rec \in iar' \ iar :
       rec.manufacturer =
         ManufacturerOfLineItem(procuredMeds, rec.poNumber, rec.itemNumber)]_vars

\* C10, reading 'at insert time' as the time the request looked the line items
\* up (the reading that leaves concurrent line-item inserts aside): every
\* InspectionRecord stored by a request carries the trimmed manufacturer of the
\* line item of its (poNumber, itemNumber) stored when the lookup began.
C10_ManufacturerBackfilled ==
  \A i \in Requests :
    req[i].kind \in {"iarCommit", "iarManual"} =>
      \A rec \in req[i].inserted :
        rec.manufacturer =
          ManufacturerOfLineItem(req[i].lineItems, rec.poNumber, rec.itemNumber)


\* ====================================================================
\* The endpoints that write nothing: the dashboard's status derivation, the
\* supporting read endpoints and the two parse endpoints.  Each is a function
\* of what it is given; ReadSpec draws that input and applies the endpoint.
\* ====================================================================

\* ------------------------------------------------------------------ bounds
\* quantities given to the status derivation run from -MaxShortfall to MaxQty
MaxShortfall == 1
MaxQty == 3

\* --------------------------------------------------- status derivation
\* getInspectionStatus without the test that something is required
getInspectionStatusAnyRequired(requiredQty, inspectedQty) ==
  IF inspectedQty <= 0 THEN "Not Delivered"
  ELSE IF inspectedQty >= requiredQty THEN "Complete"
  ELSE "Partial"

\* getInspectionStatus of the purchase-order list
getInspectionStatus(requiredQty, inspectedQty) ==
  IF inspectedQty <= 0 THEN "Not Delivered"
  ELSE IF requiredQty > 0 /\ inspectedQty >= requiredQty THEN "Complete"
  ELSE "Partial"

\* getInspectionStatus of the purchase-order details page (its own copy)
PageGetInspectionStatus(requiredQty, inspectedQty) ==
  IF inspectedQty <= 0 THEN "Not Delivered"
  ELSE IF requiredQty > 0 /\ inspectedQty >= requiredQty THEN "Complete"
  ELSE "Partial"

\* row.quantity ?? 0
QuantityOrZero(q) == IF q = None THEN 0 ELSE q[1]

StatusInputs ==
  { [kind |-> "status", requiredQty |-> q, inspectedQty |-> n] :
      q \in {None} \cup {Some(k) : k \in (0 - MaxShortfall)..MaxQty}, n \in (0 - MaxShortfall)..MaxQty }

\* the status of one line, as each of the two pages derives it
DeriveStatus ==
  /\ input.kind = "status" /\ output = NoOutput
  /\ output' =
       [kind |-> "status",
        list |-> getInspectionStatus(QuantityOrZero(input.requiredQty),
                                     input.inspectedQty),
        page |-> PageGetInspectionStatus(QuantityOrZero(input.requiredQty),
                                         input.inspectedQty)]
  /\ UNCHANGED <<procuredMeds, iar, iarLoaded, req, input, page>>

\* ------------------------------------------------ purchase-order status
\* stored line items and inspection records the dashboard may find: one
\* purchase order of two lines, another of one line, lines that require
\* nothing, and up to two inspections of a line
LineItemPool ==
  { [poNumber |-> sA, itemNo |-> 1, poDate |-> NullDate, manufacturer |-> Null,
     quantity |-> q] : q \in {None, Some(2)} }
  \cup { [poNumber |-> sA, itemNo |-> 2, poDate |-> NullDate,
          manufacturer |-> Null, quantity |-> q] : q \in {Some(0), Some(1)} }
  \cup { [poNumber |-> sA1, itemNo |-> 2, poDate |-> NullDate,
          manufacturer |-> Null, quantity |-> Some(1)] }

InspectionPool ==
  { [iarNumber |-> n, dateOfInspection |-> DateOf(2024, 1, 15), poNumber |-> sA,
     itemNumber |-> 1, inspectedQuantity |-> 1, manufacturer |-> Null,
     expirationDate |-> NullDate] : n \in {sI, sJ} }
  \cup { [iarNumber |-> sI, dateOfInspection |-> DateOf(2024, 1, 15),
          poNumber |-> sA, itemNumber |-> 2, inspectedQuantity |-> q,
          manufacturer |-> Null, expirationDate |-> NullDate] : q \in {0, 1} }
  \cup { [iarNumber |-> sJ, dateOfInspection |-> DateOf(2024, 1, 15),
          poNumber |-> sA1, itemNumber |-> 2, inspectedQuantity |-> q,
          manufacturer |-> Null, expirationDate |-> NullDate] : q \in {1, 2} }

\* the stores the unique indexes allow
LineItemStores ==
  { S \in SUBSET LineItemPool :
      \A a \in S, b \in S :
        (a.poNumber = b.poNumber /\ a.itemNo = b.itemNo) => a = b }

InspectionStores ==
  { S \in SUBSET InspectionPool :
      \A a \in S, b \in S :
        (a.iarNumber = b.iarNumber /\ a.poNumber = b.poNumber
         /\ a.itemNumber = b.itemNumber) => a = b }

\* the poNumber of the details URL, decoded
PoParams == {sA, sA1, sX}

RECURSIVE SumInspected(_)
\* existing + (iar.inspectedQuantity ?? 0), over the rows of one map key
SumInspected(rows) ==
  IF rows = {} THEN 0
  ELSE LET r == CHOOSE x \in rows : TRUE
       IN r.inspectedQuantity + SumInspected(rows \ {r})

\* inspectedByItem of the list: a map from `${poNumber}::${itemNumber}`
ListInspectedByItem(iarRows) ==
  [key \in {PoItemKey(r.poNumber, r.itemNumber) : r \in iarRows} |->
     SumInspected({r \in iarRows : PoItemKey(r.poNumber, r.itemNumber) = key})]

\* inspectedByItem.get(key) ?? 0
MapGetOrZero(map, key) == IF key \in DOMAIN map THEN map[key] ELSE 0

\* the status of the list with a purchase order of any inspected line Complete
ListStatusAnyInspected(itemCount, completeCount, withInspectionCount) ==
  IF withInspectionCount > 0 THEN "Complete" ELSE "Not Delivered"

\* status of a group of the list
ListStatus(itemCount, completeCount, withInspectionCount) ==
  IF completeCount = itemCount THEN "Complete"
  ELSE IF withInspectionCount > 0 THEN "Partial"
  ELSE "Not Delivered"

\* ListsOfPOs: the summaries, one per poNumber among the line items
ListSummaries(rows, iarRows) ==
  LET inspectedByItem == ListInspectedByItem(iarRows)
      itemStatus(row) ==
        getInspectionStatus(
          QuantityOrZero(row.quantity),
          MapGetOrZero(inspectedByItem, PoItemKey(row.poNumber, row.itemNo)))
  IN { LET group == {row \in rows : row.poNumber = po}
           itemCount == Cardinality(group)
           completeCount ==
             Cardinality({row \in group : itemStatus(row) = "Complete"})
           withInspectionCount ==
             Cardinality({row \in group : itemStatus(row) # "Not Delivered"})
       IN [poNumber |-> po, itemCount |-> itemCount,
           status |-> ListStatus(itemCount, completeCount, withInspectionCount)]
       : po \in {row.poNumber : row \in rows} }

\* inspectedByItem of the details page: a map from itemNumber
PageInspectedByItem(iarRows) ==
  [item \in {r.itemNumber : r \in iarRows} |->
     SumInspected({r \in iarRows : r.itemNumber = item})]

\* poStatus of the details page; notFound() when the order has no line
PageStatus(poNumber, store, iarStore) ==
  LET rows == {row \in store : row.poNumber = poNumber}
      iarRows == {r \in iarStore : r.poNumber = poNumber}
      inspectedByItem == PageInspectedByItem(iarRows)
      itemStatus(row) ==
        PageGetInspectionStatus(QuantityOrZero(row.quantity),
                                MapGetOrZero(inspectedByItem, row.itemNo))
      completeCount == Cardinality({row \in rows : itemStatus(row) = "Complete"})
      withInspectionCount ==
        Cardinality({row \in rows : itemStatus(row) # "Not Delivered"})
  IN IF rows = {} THEN "notFound"
     ELSE IF completeCount = Cardinality(rows) THEN "Complete"
     ELSE IF withInspectionCount > 0 THEN "Partial"
     ELSE "Not Delivered"

\* GET /dashboard: the list of purchase orders
RenderListsOfPOs ==
  /\ input.kind = "dashboard" /\ output = NoOutput
  /\ output' = [kind |-> "list", summaries |-> ListSummaries(procuredMeds, iar)]
  /\ UNCHANGED <<procuredMeds, iar, iarLoaded, req, input, page>>

\* GET /dashboard/[poNumber]: the details of one purchase order
RenderPoDetails ==
  /\ input.kind = "dashboard" /\ output = NoOutput
  /\ \E poNumber \in PoParams :
       output' = [kind |-> "details", poNumber |-> poNumber,
                  status |-> PageStatus(poNumber, procuredMeds, iar)]
  /\ UNCHANGED <<procuredMeds, iar, iarLoaded, req, input, page>>

\* ------------------------------------------------------- text and patterns
Quote == "\""

UpperLetters ==
  {"A", "B", "C", "D", "E", "F", "G", "H", "I", "J", "K", "L", "M",
   "N", "O", "P", "Q", "R", "S", "T", "U", "V", "W", "X", "Y", "Z"}

LowerLetters ==
  {"a", "b", "c", "d", "e", "f", "g", "h", "i", "j", "k", "l", "m",
   "n", "o", "p", "q", "r", "s", "t", "u", "v", "w", "x", "y", "z"}

\* the lower-case form of a character, for the patterns' i flag
Lower(c) ==
  CASE c = "A" -> "a" [] c = "B" -> "b" [] c = "C" -> "c" [] c = "D" -> "d"
    [] c = "E" -> "e" [] c = "F" -> "f" [] c = "G" -> "g" [] c = "H" -> "h"
    [] c = "I" -> "i" [] c = "J" -> "j" [] c = "K" -> "k" [] c = "L" -> "l"
    [] c = "M" -> "m" [] c = "N" -> "n" [] c = "O" -> "o" [] c = "P" -> "p"
    [] c = "Q" -> "q" [] c = "R" -> "r" [] c = "S" -> "s" [] c = "T" -> "t"
    [] c = "U" -> "u" [] c = "V" -> "v" [] c = "W" -> "w" [] c = "X" -> "x"
    [] c = "Y" -> "y" [] c = "Z" -> "z" [] OTHER -> c

LowerSeq(s) == [k \in 1..Len(s) |-> Lower(s[k])]

\* \w
IsWordChar(c) == c \in Digits \cup UpperLetters \cup LowerLetters \cup {"_"}

\* \b between position p - 1 and position p of s
WordBoundaryAt(s, p) ==
  LET before == p - 1 >= 1 /\ p - 1 <= Len(s) /\ IsWordChar(s[p - 1])
      after == p >= 1 /\ p <= Len(s) /\ IsWordChar(s[p])
  IN before # after

\* String(n).padStart(width, "0")
RECURSIVE PadStart(_, _)
PadStart(s, width) == IF Len(s) >= width THEN s ELSE PadStart(<<"0">> \o s, width)

\* toYyyyMmDd(year, month, day)
toYyyyMmDd(year, month, day) ==
  PadStart(IntToStr(year), 4) \o <<"-">> \o PadStart(IntToStr(month), 2)
    \o <<"-">> \o PadStart(IntToStr(day), 2)

\* first index at or after p whose character is not in chars, Len(s) + 1 if none
RECURSIVE SkipWhile(_, _, _)
SkipWhile(s, chars, p) ==
  IF p > Len(s) THEN Len(s) + 1
  ELSE IF s[p] \in chars THEN SkipWhile(s, chars, p + 1) ELSE p

\* first index at or after p whose character is in chars, Len(s) + 1 if none
RECURSIVE SkipUntil(_, _, _)
SkipUntil(s, chars, p) ==
  IF p > Len(s) THEN Len(s) + 1
  ELSE IF s[p] \in chars THEN p ELSE SkipUntil(s, chars, p + 1)

\* ------------------------------------------------------ parseParticulars
\* cleanText of a text cell: trimmed, null when nothing is left
cleanText(value) ==
  IF value = Null THEN Null
  ELSE IF Trim(value) = <<>> THEN Null ELSE Trim(value)

RECURSIVE FirstQuoted(_, _)
\* group 1 of the first match of /"([^"]+)"/ at or after p, Null when none
FirstQuoted(s, p) ==
  LET i == IndexOfFrom(s, <<Quote>>, p)
      j == IF i = 0 THEN 0 ELSE IndexOfFrom(s, <<Quote>>, i + 1)
  IN IF i = 0 \/ j = 0 THEN Null
     ELSE IF j = i + 1 THEN FirstQuoted(s, i + 1)
     ELSE SubSeq(s, i + 1, j - 1)

\* the value terminators of the labelled patterns: [^;,\n]
Terminators == {";", ",", "\n"}

\* ([^;,\n]+) after \s*:\s* with the colon at index c: the white space is
\* taken greedily and given back until one character can be captured
CaptureAfterColon(s, c) ==
  LET k == SkipWhile(s, Spaces, c + 1)
      starts == IF k <= Len(s) /\ s[k] \notin Terminators THEN {k}
                ELSE {q \in (c + 1)..(k - 1) : s[q] # "\n"}
  IN IF starts = {} THEN Null
     ELSE LET start == CHOOSE q \in starts : \A r \in starts : r <= q
              stop == SkipUntil(s, Terminators, start)
          IN SubSeq(s, start, stop - 1)

\* the capture of \b(?:label)\.?\s*:\s*([^;,\n]+) with the label at index p
LabelledAt(s, labels, p) ==
  LET hits == {l \in labels :
                 /\ p + Len(l) - 1 <= Len(s)
                 /\ LowerSeq(SubSeq(s, p, p + Len(l) - 1)) = LowerSeq(l)
                 /\ LET e == p + Len(l)
                        q == IF e <= Len(s) /\ s[e] = "." THEN e + 1 ELSE e
                        c == SkipWhile(s, Spaces, q)
                    IN c <= Len(s) /\ s[c] = ":" /\ CaptureAfterColon(s, c) # Null}
  IN IF ~WordBoundaryAt(s, p) \/ hits = {} THEN Null
     ELSE LET l == CHOOSE h \in hits : TRUE
              e == p + Len(l)
              q == IF e <= Len(s) /\ s[e] = "." THEN e + 1 ELSE e
          IN CaptureAfterColon(s, SkipWhile(s, Spaces, q))

RECURSIVE Labelled(_, _, _)
\* match(/\b(?:labels)\.?\s*:\s*([^;,\n]+)/i)?.[1]?.trim() ?? null
Labelled(s, labels, p) ==
  IF p > Len(s) THEN Null
  ELSE IF LabelledAt(s, labels, p) # Null THEN Trim(LabelledAt(s, labels, p))
  ELSE Labelled(s, labels, p + 1)

BatchLabels == {<<"B", "/", "L">>, <<"B", "a", "t", "c", "h">>, <<"L", "o", "t">>}

ExpiryLabels ==
  {<<"E", "x", "p">>, <<"E", "x", "p", "i", "r", "y">>,
   <<"E", "x", "p", "i", "r", "a", "t", "i", "o", "n">>}

\* /^\d{1,2}\/\d{4}$/.test(s)
MonthYearShape(s) ==
  \E n \in 1..2 :
    /\ Len(s) = n + 5
    /\ AllDigits(s, 1, n) /\ s[n + 1] = "/" /\ AllDigits(s, n + 2, n + 5)

\* /^\d{4}-\d{1,2}-\d{1,2}$/.test(s)
LooseIsoShape(s) ==
  \E a \in 1..2, b \in 1..2 :
    /\ Len(s) = 6 + a + b
    /\ AllDigits(s, 1, 4) /\ s[5] = "-" /\ AllDigits(s, 6, 5 + a)
    /\ s[6 + a] = "-" /\ AllDigits(s, 7 + a, 6 + a + b)

\* particulars.split(/\r?\n/).map(trim).filter(Boolean)
NonEmptyLines(s) ==
  LET parts == Split(s, <<"\n">>)
      trimmed == [k \in 1..Len(parts) |-> Trim(parts[k])]
  IN SelectSeq(trimmed, LAMBDA line : line # <<>>)

\* the test of lines.find for a line that looks like a batch number
LikelyBatch(line) ==
  /\ \E k \in 1..Len(line) : line[k] \in Digits
  /\ Len(line) >= 5
  /\ \A k \in 1..Len(line) :
       line[k] \in Digits \cup UpperLetters \cup LowerLetters \cup {"-"}
  /\ ~MonthYearShape(line)
  /\ ~LooseIsoShape(line)

\* lines.find(...) ?? null
FindLikelyBatch(lines) ==
  LET hits == SelectSeq(lines, LikelyBatch)
  IN IF hits = <<>> THEN Null ELSE Head(hits)

\* the match of /\b(0?[1-9]|1[0-2])\/\d{4}\b/ that starts at p, Null when none
InlineMonthYearAt(s, p) ==
  LET ok(n) ==
        /\ p + n + 4 <= Len(s)
        /\ s[p + n] = "/" /\ AllDigits(s, p + n + 1, p + n + 4)
        /\ WordBoundaryAt(s, p + n + 5)
      nonZero == Digits \ {"0"}
      lengths ==
        {n \in 1..2 :
           /\ p + n - 1 <= Len(s)
           /\ \/ n = 2 /\ s[p] = "0" /\ s[p + 1] \in nonZero
              \/ n = 1 /\ s[p] \in nonZero
              \/ n = 2 /\ s[p] = "1" /\ s[p + 1] \in {"0", "1", "2"}
           /\ ok(n)}
  IN IF ~WordBoundaryAt(s, p) \/ lengths = {} THEN Null
     ELSE LET n == CHOOSE x \in lengths : TRUE IN SubSeq(s, p, p + n + 4)

\* the match of /\b\d{4}-\d{1,2}-\d{1,2}\b/ that starts at p, Null when none
InlineIsoAt(s, p) ==
  LET fits == {ab \in (1..2) \X (1..2) :
                 LET a == ab[1]
                     b == ab[2]
                 IN /\ p + 5 + a + b <= Len(s)
                    /\ AllDigits(s, p, p + 3) /\ s[p + 4] = "-"
                    /\ AllDigits(s, p + 5, p + 4 + a) /\ s[p + 5 + a] = "-"
                    /\ AllDigits(s, p + 6 + a, p + 5 + a + b)
                    /\ WordBoundaryAt(s, p + 6 + a + b)}
  IN IF ~WordBoundaryAt(s, p) \/ fits = {} THEN Null
     ELSE LET ab == CHOOSE x \in fits : TRUE
          IN SubSeq(s, p, p + 5 + ab[1] + ab[2])

RECURSIVE FirstInline(_, _, _)
\* the first match of an inline pattern at or after p: [0] of match(...)
FirstInline(s, At(_, _), p) ==
  IF p > Len(s) THEN Null
  ELSE IF At(s, p) # Null THEN At(s, p)
  ELSE FirstInline(s, At, p + 1)

\* normalizeExpiry: M/YYYY is the first day of that month, any other text is
\* what new Date reads it as (its UTC calendar date; a date-only ISO text is
\* read as UTC), null when it reads nothing
normalizeExpiry(value) ==
  IF value = Null \/ value = <<>> THEN Null
  ELSE LET raw == Trim(value)
           slash == IndexOfFrom(raw, <<"/">>, 1)
           month == DigitsToNat(SubSeq(raw, 1, slash - 1), 0)
           year == DigitsToNat(SubSeq(raw, slash + 1, Len(raw)), 0)
           parsed == NewDate(raw)
       IN IF raw = <<>> THEN Null
          ELSE IF MonthYearShape(raw) /\ month >= 1 /\ month <= 12
            THEN toYyyyMmDd(IF year < 100 THEN 1900 + year ELSE year, month, 1)
          ELSE IF parsed.kind = "date"
            THEN toYyyyMmDd(parsed.y, parsed.m, parsed.d)
          ELSE Null

\* parseParticulars
parseParticulars(raw) ==
  LET particulars == cleanText(raw)
      brandMatch == FirstQuoted(particulars, 1)
      labelledBatch == Labelled(particulars, BatchLabels, 1)
      batchRaw == IF labelledBatch = Null \/ labelledBatch = <<>>
                    THEN FindLikelyBatch(NonEmptyLines(particulars))
                    ELSE labelledBatch
      labelledExpiry == Labelled(particulars, ExpiryLabels, 1)
      inlineMonthYear == FirstInline(particulars, InlineMonthYearAt, 1)
      expiryRaw == IF labelledExpiry = Null \/ labelledExpiry = <<>>
                     THEN IF inlineMonthYear # Null THEN inlineMonthYear
                          ELSE FirstInline(particulars, InlineIsoAt, 1)
                     ELSE labelledExpiry
  IN IF particulars = Null
       THEN [brand |-> Null, batchLotNumber |-> Null, expirationDate |-> Null]
       ELSE [brand |-> IF brandMatch = Null THEN Null ELSE Trim(brandMatch),
             batchLotNumber |-> batchRaw,
             expirationDate |-> normalizeExpiry(expiryRaw)]

\* ----------------------------------------------------------- sheet cells
\* a cell as sheet_to_json hands it over with raw: true and defval: null:
\* null, a text or a number
CNull == [t |-> "null", s |-> <<>>, n |-> 0]
CStr(text) == [t |-> "str", s |-> text, n |-> 0]
CNum(num) == [t |-> "num", s |-> <<>>, n |-> num]
\* the number NaN, which no cell holds but Number(cell) can give
CNaN == [t |-> "nan", s |-> <<>>, n |-> 0]

\* String(value ?? "")
CellToString(cell) ==
  IF cell.t = "null" THEN <<>>
  ELSE IF cell.t = "num" THEN IntToStr(cell.n) ELSE cell.s

\* a cell as the text helpers see it: null stays null, String(value) otherwise
CellText(cell) == IF cell.t = "null" THEN Null ELSE CellToString(cell)

\* a raw cell handed to the schema as it is: z.string() takes a text or null
RawTextOk(cell) == cell.t \in {"null", "str"}

\* value.replace(/,/g, "")
RECURSIVE StripCommas(_)
StripCommas(s) ==
  IF s = <<>> THEN <<>>
  ELSE IF Head(s) = "," THEN StripCommas(Tail(s))
  ELSE <<Head(s)>> \o StripCommas(Tail(s))

\* /^(\d{1,2})\/(\d{1,2})\/(\d{4})$/: the lengths of month and day, {} if no match
UsDateShape(s) ==
  {ab \in (1..2) \X (1..2) :
     LET a == ab[1]
         b == ab[2]
     IN /\ Len(s) = a + b + 6
        /\ AllDigits(s, 1, a) /\ s[a + 1] = "/" /\ AllDigits(s, a + 2, a + b + 1)
        /\ s[a + b + 2] = "/" /\ AllDigits(s, a + b + 3, a + b + 6)}

\* the lengths of month and day of /^(\d{4})-(\d{1,2})-(\d{1,2})$/
LooseIsoParts(s) ==
  {ab \in (1..2) \X (1..2) :
     LET a == ab[1]
         b == ab[2]
     IN /\ Len(s) = 6 + a + b
        /\ AllDigits(s, 1, 4) /\ s[5] = "-" /\ AllDigits(s, 6, 5 + a)
        /\ s[6 + a] = "-" /\ AllDigits(s, 7 + a, 6 + a + b)}

\* normalizeDate of a text, up to the two patterns; Null when neither matches
NormalizeDateByPattern(trimmed) ==
  IF UsDateShape(trimmed) # {}
    THEN LET ab == CHOOSE x \in UsDateShape(trimmed) : TRUE
             a == ab[1]
             b == ab[2]
         IN toYyyyMmDd(DigitsToNat(SubSeq(trimmed, a + b + 3, a + b + 6), 0),
                       DigitsToNat(SubSeq(trimmed, 1, a), 0),
                       DigitsToNat(SubSeq(trimmed, a + 2, a + b + 1), 0))
  ELSE IF LooseIsoParts(trimmed) # {}
    THEN LET ab == CHOOSE x \in LooseIsoParts(trimmed) : TRUE
             a == ab[1]
             b == ab[2]
         IN toYyyyMmDd(DigitsToNat(SubSeq(trimmed, 1, 4), 0),
                       DigitsToNat(SubSeq(trimmed, 6, 5 + a), 0),
                       DigitsToNat(SubSeq(trimmed, 7 + a, 6 + a + b), 0))
  ELSE Null

\* a normalizeDate that drops a text it cannot read
IarNormalizeDateDropping(cell) ==
  IF cell.t = "null" \/ (cell.t = "str" /\ Trim(cell.s) = <<>>) THEN Null
  ELSE LET trimmed == Trim(cell.s)
           byPattern == NormalizeDateByPattern(trimmed)
           parsed == NewDate(trimmed)
       IN IF byPattern # Null THEN byPattern
          ELSE IF parsed.kind = "date" THEN toYyyyMmDd(parsed.y, parsed.m, parsed.d)
          ELSE Null

\* normalizeDate of the inspection parse, for a null or text cell: a text no
\* pattern matches is read by new Date, and passed through when that fails
IarNormalizeDate(cell) ==
  IF cell.t = "null" \/ (cell.t = "str" /\ Trim(cell.s) = <<>>) THEN Null
  ELSE LET trimmed == Trim(cell.s)
           byPattern == NormalizeDateByPattern(trimmed)
           parsed == NewDate(trimmed)
       IN IF byPattern # Null THEN byPattern
          ELSE IF parsed.kind = "date" THEN toYyyyMmDd(parsed.y, parsed.m, parsed.d)
          ELSE trimmed

\* normalizeDate of the purchase-order parse, for a null or text cell: a text
\* no pattern matches is passed through
PoNormalizeDate(cell) ==
  IF cell.t = "null" \/ (cell.t = "str" /\ Trim(cell.s) = <<>>) THEN Null
  ELSE LET trimmed == Trim(cell.s)
           byPattern == NormalizeDateByPattern(trimmed)
       IN IF byPattern # Null THEN byPattern ELSE trimmed

\* normalizeInt: null for null, "" and what Number does not read
normalizeInt(cell) ==
  IF cell.t = "null" \/ (cell.t = "str" /\ cell.s = <<>>) THEN None
  ELSE IF cell.t = "num" THEN Some(cell.n)
  ELSE LET n == Number(Trim(StripCommas(cell.s)))
       IN IF n.nan THEN None ELSE Some(n.val)

\* Number(cell) of a cell that is not null: NaN is None
CellToNumber(cell) ==
  IF cell.t = "num" THEN Some(cell.n)
  ELSE LET n == Number(cell.s) IN IF n.nan THEN None ELSE Some(n.val)

\* ----------------------------------------------------- sheets
\* rows kept for the preview
PreviewSize == 200

\* a spreadsheet row with no cell at all
BlankRow == [blank |-> TRUE]

\* sheet_to_json(sheet, { defval: null, raw: true }): the first row is the
\* header; a data row with no cell is skipped, every other data row becomes an
\* object with one key per header.  sheetRow is the row's number in the
\* spreadsheet (the header is row 1), which the handler never sees.
SheetToJson(rows) ==
  LET numbered == [k \in 1..Len(rows) |->
                     [cells |-> rows[k], sheetRow |-> k + 1,
                      keys |-> IF rows[k].blank THEN 0 ELSE 1]]
  IN SelectSeq(numbered, LAMBDA r : ~r.cells.blank)

\* rawRows.filter((r) => Object.keys(r).length > 0)
WithColumns(rawRows) == SelectSeq(rawRows, LAMBDA r : r.keys > 0)

\* validRows.slice(0, 200)
Preview(validRows) ==
  SubSeq(validRows, 1, IF Len(validRows) < PreviewSize THEN Len(validRows)
                       ELSE PreviewSize)

\* mapped.forEach with a return out of the whole loop at the first bad row
RECURSIVE ValidateUntilBad(_, _, _, _, _)
ValidateUntilBad(mapped, ok, i, errors, validRows) ==
  IF i >= Len(mapped) THEN [errors |-> errors, validRows |-> validRows]
  ELSE IF ~ok[i + 1]
    THEN [errors |-> Append(errors, [index |-> i + 2]), validRows |-> validRows]
  ELSE ValidateUntilBad(mapped, ok, i + 1, errors, Append(validRows, mapped[i + 1]))

\* mapped.forEach((row, i) => ...), ok[k] telling whether RowSchema takes
\* mapped[k]: a row the schema refuses is pushed on errors with index i + 2,
\* any other on validRows
RECURSIVE Validate(_, _, _, _, _)
Validate(mapped, ok, i, errors, validRows) ==
  IF i >= Len(mapped) THEN [errors |-> errors, validRows |-> validRows]
  ELSE IF ~ok[i + 1]
    THEN Validate(mapped, ok, i + 1, Append(errors, [index |-> i + 2]), validRows)
  ELSE Validate(mapped, ok, i + 1, errors, Append(validRows, mapped[i + 1]))

\* the body of the parse response
ParseResponse(kind, mapped, checked) ==
  [kind |-> kind, totalRows |-> Len(mapped),
   validRowsCount |-> Len(checked.validRows), errors |-> checked.errors,
   preview |-> Preview(checked.validRows), allValidRows |-> checked.validRows]

\* ------------------------------------------------ inspection parse
IarSheetRow(iarNo, date, po, item, qty, office, particulars) ==
  [blank |-> FALSE, iarNo |-> iarNo, dateOfInspection |-> date, poNumber |-> po,
   itemNumber |-> item, quantity |-> qty, office |-> office,
   particulars |-> particulars]

\* r.map(...) of the inspection parse: one prepared row, the three fields
\* read from the particulars included
IarParseMap(r) ==
  [iarNumber |-> Trim(CellToString(r.iarNo)),
   dateOfInspection |-> IarNormalizeDate(r.dateOfInspection),
   poNumber |-> Trim(CellToString(r.poNumber)),
   itemNumber |-> normalizeInt(r.itemNumber),
   inspectedQuantity |-> normalizeInt(r.quantity),
   requisitioningOffice |-> cleanText(CellText(r.office))]
  @@ parseParticulars(CellText(r.particulars))

\* RowSchema of the inspection parse
IarRowSchemaOk(row) ==
  /\ Len(row.iarNumber) >= 1
  /\ row.dateOfInspection # Null /\ Len(row.dateOfInspection) >= 1
  /\ Len(row.poNumber) >= 1
  /\ row.itemNumber # None /\ row.itemNumber[1] >= 0
  /\ row.inspectedQuantity # None /\ row.inspectedQuantity[1] >= 0

\* the rows that have columns, prepared
IarMappedRows(rawRows) ==
  [k \in 1..Len(rawRows) |-> IarParseMap(rawRows[k].cells)]

\* the validation loop over the prepared rows and the response
IarValidated(mapped) ==
  ParseResponse("iarParse", mapped,
                Validate(mapped, [k \in 1..Len(mapped) |-> IarRowSchemaOk(mapped[k])],
                         0, <<>>, <<>>))

\* POST /api/upload-iar/parse
IarParse(rows) == IarValidated(IarMappedRows(WithColumns(SheetToJson(rows))))

\* ------------------------------------------- purchase-order parse
\* text.replace(/"[^"]*"/g, ""): every quoted stretch is removed
RECURSIVE StripQuoted(_)
StripQuoted(s) ==
  LET i == IndexOfFrom(s, <<Quote>>, 1)
      j == IF i = 0 THEN 0 ELSE IndexOfFrom(s, <<Quote>>, i + 1)
  IN IF i = 0 \/ j = 0 THEN s
     ELSE SubSeq(s, 1, i - 1) \o StripQuoted(SubSeq(s, j + 1, Len(s)))

\* text.replace(/[,\s]+$/, "")
RECURSIVE StripTrailingCommas(_)
StripTrailingCommas(s) ==
  IF s # <<>> /\ s[Len(s)] \in Spaces \cup {","}
    THEN StripTrailingCommas(SubSeq(s, 1, Len(s) - 1))
    ELSE s

\* the index of the match of /"(.*?)"\s*$/ and of its closing quote, <<0, 0>>
\* when there is none: the closing quote is the last character before the
\* trailing whitespace, the opening one the leftmost quote before it with no
\* line break between the two
TrailingQuoted(s) ==
  LET body == TrimEnd(s)
      j == Len(body)
      opens == {i \in 1..(j - 1) :
                  /\ body[i] = Quote
                  /\ \A k \in (i + 1)..(j - 1) : body[k] # "\n"}
  IN IF j = 0 \/ body[j] # Quote \/ opens = {} THEN <<0, 0>>
     ELSE <<CHOOSE i \in opens : \A o \in opens : i <= o, j>>

\* text || null
OrNull(s) == IF s = <<>> THEN Null ELSE s

\* splitGenericAndBrand
splitGenericAndBrand(rawGeneric, rawBrand) ==
  LET explicitBrand == cleanText(rawBrand)
      genericText == cleanText(rawGeneric)
      m == TrailingQuoted(genericText)
  IN IF genericText = Null
       THEN [genericName |-> Null, brandName |-> explicitBrand]
     ELSE IF explicitBrand # Null
       THEN [genericName |->
               OrNull(Trim(StripTrailingCommas(StripQuoted(genericText)))),
             brandName |-> explicitBrand]
     ELSE IF m[1] # 0 /\ m[2] > m[1] + 1
       THEN [genericName |->
               OrNull(Trim(StripTrailingCommas(SubSeq(genericText, 1, m[1] - 1)))),
             brandName |-> OrNull(Trim(SubSeq(genericText, m[1] + 1, m[2] - 1)))]
     ELSE [genericName |-> genericText, brandName |-> explicitBrand]

PoSheetRow(po, item, date, supplier, qty, generic, brand, manufacturer) ==
  [blank |-> FALSE, poNumber |-> po, itemNo |-> item, poDate |-> date,
   supplier |-> supplier, quantity |-> qty, generic |-> generic,
   brand |-> brand, manufacturer |-> manufacturer]

\* r.map(...) of the purchase-order parse: one prepared row; itemNo is None
\* for NaN; quantity, supplier and manufacturer are cells
PoParseMap(r) ==
  LET splitNames == splitGenericAndBrand(CellText(r.generic), CellText(r.brand)) IN
  [poNumber |-> Trim(CellToString(r.poNumber)),
   itemNo |-> IF r.itemNo.t = "null" \/ (r.itemNo.t = "str" /\ r.itemNo.s = <<>>)
                THEN None ELSE CellToNumber(r.itemNo),
   poDate |-> PoNormalizeDate(r.poDate),
   supplier |-> r.supplier,
   genericName |-> splitNames.genericName,
   quantity |-> IF r.quantity.t = "null" THEN CNull
                ELSE IF CellToNumber(r.quantity) = None THEN CNaN
                ELSE CNum(CellToNumber(r.quantity)[1]),
   brandName |-> splitNames.brandName,
   manufacturer |-> r.manufacturer]

\* RowSchema of the purchase-order parse
PoRowSchemaOk(row) ==
  /\ Len(row.poNumber) >= 1
  /\ row.itemNo # None /\ row.itemNo[1] >= 0
  /\ RawTextOk(row.supplier)
  /\ row.quantity.t \in {"null", "num"}
  /\ RawTextOk(row.manufacturer)

\* the rows that have columns, prepared
PoMappedRows(rawRows) ==
  [k \in 1..Len(rawRows) |-> PoParseMap(rawRows[k].cells)]

\* the validation loop over the prepared rows and the response
PoValidated(mapped) ==
  ParseResponse("poParse", mapped,
                Validate(mapped, [k \in 1..Len(mapped) |-> PoRowSchemaOk(mapped[k])],
                         0, <<>>, <<>>))

\* POST /api/upload-procured-meds/parse
PoParse(rows) == PoValidated(PoMappedRows(WithColumns(SheetToJson(rows))))

\* ------------------------------------------------- uploaded sheets
\* the longest sheet explored, in data rows
MaxSheetRows == 3

SheetsOver(pool) == UNION {[1..n -> pool] : n \in 0..MaxSheetRows}

ParticularsLabelledFirst ==
  <<"B", "a", "t", "c", "h", ":", " ", "A", "B", "-", "1", "2", "3", "4", "5",
    ";", " ", "E", "x", "p", ":", " ", "0", "3", "/", "2", "0", "2", "6", " ",
    Quote, "B", "r", "a", "n", "d", "X", Quote>>
ParticularsBrandFirst ==
  <<Quote, "B", "r", "a", "n", "d", "X", Quote, " ", "B", "a", "t", "c", "h",
    ":", " ", "A", "B", "-", "1", "2", "3", "4", "5", ";", " ", "E", "x", "p",
    ".", " ", ":", " ", "0", "3", "/", "2", "0", "2", "6", ",", " ", "x">>
ParticularsUnlabelled ==
  <<"A", "B", "1", "2", "3", "4", "5", "\n", "3", "/", "2", "0", "2", "6", " ",
    "l", "o", "t">>

\* inspection sheet rows: two the schema takes, a row with no cell, one
\* without its PO number and one with a negative quantity and no date
IarSheetRowPool ==
  { IarSheetRow(CStr(<<"I", "1">>),
                CStr(<<"0", "1", "/", "1", "5", "/", "2", "0", "2", "4">>),
                CStr(<<"A">>), CNum(1), CNum(2),
                CStr(<<"P", "h", "a", "r", "m", "a", "c", "y">>),
                CStr(ParticularsLabelledFirst)),
    BlankRow,
    IarSheetRow(CStr(<<"I", "1">>),
                CStr(<<"2", "0", "2", "4", "-", "1", "-", "5">>),
                CNull, CNum(1), CStr(<<"1", ",", "0", "0", "0">>), CNull, CNull),
    IarSheetRow(CNum(7), CStr(<<" ", "N", "/", "A", " ">>), CStr(<<" ", "B", " ">>),
                CStr(<<" ", "2", " ">>), CNum(0), CStr(<<" ">>),
                CStr(ParticularsBrandFirst)),
    IarSheetRow(CStr(<<"I", "2">>), CNull, CStr(<<"A">>), CNum(2), CNum(-1),
                CNull, CStr(ParticularsUnlabelled)) }

\* purchase-order sheet rows: two the schema takes, a row with no cell, one
\* without its item number and one with a number for a supplier
PoSheetRowPool ==
  { PoSheetRow(CStr(<<"A">>), CNum(1),
               CStr(<<"1", "/", "5", "/", "2", "0", "2", "4">>), CStr(<<"S">>),
               CNum(10),
               CStr(<<"P", "a", "r", "a", " ", "5", "0", "0", "m", "g", ",", " ",
                      Quote, "B", "i", "o", "g", "e", "s", "i", "c", Quote>>),
               CNull, CStr(<<"M">>)),
    BlankRow,
    PoSheetRow(CStr(<<"A">>), CNull, CNull, CStr(<<"S">>), CNum(1), CNull, CNull,
               CNull),
    PoSheetRow(CNum(12), CStr(<<"2">>),
               CStr(<<"J", "a", "n", " ", "2", "0", "2", "4">>), CNull, CNull,
               CStr(<<"P", "a", "r", "a", " ", Quote, "x", Quote, " ", "5", "0",
                      "0", "m", "g", " ", ",">>),
               CStr(<<"B">>), CNull),
    PoSheetRow(CStr(<<"B">>), CNum(1), CNull, CNum(5), CStr(<<"t", "e", "n">>),
               CNull, CNull, CNull) }

\* POST /api/upload-iar/parse on an uploaded sheet
ParseIar ==
  /\ input.kind = "iarSheet" /\ output = NoOutput
  /\ output' = IarParse(input.rows)
  /\ UNCHANGED <<procuredMeds, iar, iarLoaded, req, input, page>>

\* POST /api/upload-procured-meds/parse on an uploaded sheet
ParseProcured ==
  /\ input.kind = "poSheet" /\ output = NoOutput
  /\ output' = PoParse(input.rows)
  /\ UNCHANGED <<procuredMeds, iar, iarLoaded, req, input, page>>

\* ------------------------------------------------- the list endpoints
\* the characters of the stored values explored, in the order the database
\* sorts them
CharOrder == <<" ", "A", "B">>
CharRank(c) == CHOOSE k \in 1..Len(CharOrder) : CharOrder[k] = c

\* a < b as ORDER BY ... ASC compares two texts
RECURSIVE TextBefore(_, _)
TextBefore(a, b) ==
  IF b = <<>> THEN FALSE
  ELSE IF a = <<>> THEN TRUE
  ELSE IF Head(a) # Head(b) THEN CharRank(Head(a)) < CharRank(Head(b))
  ELSE TextBefore(Tail(a), Tail(b))

\* SELECT DISTINCT column ... ORDER BY column ASC over the stored values
RECURSIVE DistinctAscending(_)
DistinctAscending(values) ==
  IF values = {} THEN <<>>
  ELSE LET first == CHOOSE v \in values :
                      \A w \in values : w = v \/ TextBefore(v, w)
       IN <<first>> \o DistinctAscending(values \ {first})

\* rows.map((row) => row.column?.trim() ?? "").filter((value) => value.length > 0)
TrimmedNonEmpty(rows) ==
  SelectSeq([k \in 1..Len(rows) |-> Trim(rows[k])], LAMBDA v : Len(v) > 0)

\* WHERE column IS NOT NULL AND TRIM(column) <> ''
NotBlankInSql(values) == {v \in values : v # Null /\ Trim(v) # <<>>}

\* stored texts: PO numbers, suppliers or modes, some of them padded
StoredTexts == {<<"A">>, <<" ", "A">>, <<"B">>, <<" ", "B">>, <<" ">>}

\* a purchase-order line of a PO number
LineOfPo(po) ==
  [poNumber |-> po, itemNo |-> 1, poDate |-> NullDate, manufacturer |-> Null,
   quantity |-> None]

\* GET /api/po-numbers
GetPoNumbers ==
  /\ input.kind = "poNumbers" /\ output = NoOutput
  /\ output' = [kind |-> "values",
                values |-> TrimmedNonEmpty(
                  DistinctAscending({r.poNumber : r \in procuredMeds}))]
  /\ UNCHANGED <<procuredMeds, iar, iarLoaded, req, input, page>>

\* GET /api/modes-of-procurement
GetModes ==
  /\ input.kind = "modes" /\ output = NoOutput
  /\ output' = [kind |-> "values",
                values |-> TrimmedNonEmpty(
                  DistinctAscending(NotBlankInSql(input.column)))]
  /\ UNCHANGED <<procuredMeds, iar, iarLoaded, req, input, page>>

\* GET /api/suppliers
GetSuppliers ==
  /\ input.kind = "suppliers" /\ output = NoOutput
  /\ output' = [kind |-> "values",
                values |-> TrimmedNonEmpty(
                  DistinctAscending(NotBlankInSql(input.column)))]
  /\ UNCHANGED <<procuredMeds, iar, iarLoaded, req, input, page>>


\* ------------------------------------------------------- specification
ReadInit ==
  /\ iarLoaded = TRUE
  /\ req = [i \in Requests |-> IdleRequest]
  /\ output = NoOutput
  /\ page = NoPage
  /\ \/ /\ input \in StatusInputs
        /\ procuredMeds = {} /\ iar = {}
     \/ /\ input = [kind |-> "dashboard"]
        /\ procuredMeds \in LineItemStores /\ iar \in InspectionStores
     \/ /\ \E rows \in SheetsOver(IarSheetRowPool) :
             input = [kind |-> "iarSheet", rows |-> rows]
        /\ procuredMeds = {} /\ iar = {}
     \/ /\ \E rows \in SheetsOver(PoSheetRowPool) :
             input = [kind |-> "poSheet", rows |-> rows]
        /\ procuredMeds = {} /\ iar = {}
     \/ /\ input = [kind |-> "poNumbers"]
        /\ \E stored \in SUBSET StoredTexts :
             procuredMeds = {LineOfPo(po) : po \in stored}
        /\ iar = {}
     \/ /\ \E column \in SUBSET (StoredTexts \cup {Null}) :
             \E kind \in {"modes", "suppliers"} :
               input = [kind |-> kind, column |-> column]
        /\ procuredMeds = {} /\ iar = {}

ReadNext ==
  \/ DeriveStatus
  \/ RenderListsOfPOs
  \/ RenderPoDetails
  \/ ParseIar
  \/ ParseProcured
  \/ GetPoNumbers
  \/ GetModes
  \/ GetSuppliers

ReadSpec == ReadInit /\ [][ReadNext]_vars

\* ------------------------------------------------------------- claims
\* C11: for all integer quantities the status deriver (both copies) returns
\* Not Delivered iff inspected <= 0, Complete iff inspected > 0, required > 0
\* and inspected >= required, Partial otherwise; a line that requires 0, or
\* whose quantity is null, is never Complete.
C11_StatusOfLine ==
  output.kind = "status" =>
    LET required == QuantityOrZero(input.requiredQty)
        inspected == input.inspectedQty
    IN /\ output.list = output.page
       /\ (output.list = "Not Delivered") <=> (inspected <= 0)
       /\ (output.list = "Complete") <=>
            (inspected > 0 /\ required > 0 /\ inspected >= required)
       /\ (output.list = "Partial") <=>
            (/\ ~(inspected <= 0)
             /\ ~(inspected > 0 /\ required > 0 /\ inspected >= required))
       /\ (input.requiredQty = None \/ required = 0) => output.list # "Complete"

\* C11 witness: a line that requires nothing and has inspections is Partial
C11_Witness ==
  /\ output.kind = "status"
  /\ input.requiredQty \in {None, Some(0)}
  /\ input.inspectedQty > 0
  /\ output.list = "Partial"

\* the lines of a purchase order and the inspected sum of a line, from the store
LinesOf(po) == {row \in procuredMeds : row.poNumber = po}
InspectedSum(row) ==
  SumInspected({r \in iar : r.poNumber = row.poNumber /\ r.itemNumber = row.itemNo})
LineIsComplete(row) ==
  /\ InspectedSum(row) > 0
  /\ QuantityOrZero(row.quantity) > 0
  /\ InspectedSum(row) >= QuantityOrZero(row.quantity)

\* the status of a purchase order of at least one line, as C12 words it
ClaimedPoStatus(po) ==
  IF \A row \in LinesOf(po) : LineIsComplete(row) THEN "Complete"
  ELSE IF \A row \in LinesOf(po) : InspectedSum(row) <= 0 THEN "Not Delivered"
  ELSE "Partial"

\* C12: for every purchase order with at least one line the derived status, on
\* the list and on the details page, is Complete iff every line is Complete,
\* Not Delivered iff no line has a positive inspected sum, Partial otherwise;
\* the three cases exclude one another.
C12_StatusOfPurchaseOrder ==
  /\ output.kind = "list" =>
       /\ {s.poNumber : s \in output.summaries} = {row.poNumber : row \in procuredMeds}
       /\ \A s \in output.summaries :
            /\ s.status = ClaimedPoStatus(s.poNumber)
            /\ ~( (\A row \in LinesOf(s.poNumber) : LineIsComplete(row))
                  /\ (\A row \in LinesOf(s.poNumber) : InspectedSum(row) <= 0) )
  /\ (output.kind = "details" /\ LinesOf(output.poNumber) # {}) =>
       output.status = ClaimedPoStatus(output.poNumber)

\* C12 witness: a purchase order of two lines, one Complete and one not
\* delivered, shown Partial on the details page
C12_Witness ==
  /\ output.kind = "details"
  /\ output.status = "Partial"
  /\ \E a \in LinesOf(output.poNumber), b \in LinesOf(output.poNumber) :
       LineIsComplete(a) /\ InspectedSum(b) <= 0

\* the ledger entries of a commit for a key, and its payload rows of that key
LogsOfKey(r, key) == {n \in 1..Len(r.logs) : KeyOfRow(r, r.logs[n]) = key}
PayloadRowsOfKey(r, key) ==
  {n \in 1..Len(r.dataToInsert) : KeyOfRow(r, r.dataToInsert[n]) = key}

\* C13: a manual insert (either entity) whose existence check finds its key in
\* the store answers 409 and stores nothing; a batch commit whose lookup finds
\* the key logs the row skipped/already_exists, keeps it out of the bulk insert
\* and succeeds (the bulk insert can then only be refused over a key that was
\* absent at the lookup, the race of C7; that never happens when the commit
\* runs alone).
C13_ConflictVersusSkip ==
  [][\A i \in Requests :
       LET r == req[i]
           r2 == req'[i]
       IN /\ (r.kind = "poManual" /\ r.pc = "find" /\ r2 # r
              /\ \E s \in procuredMeds : /\ s.poNumber = r.mapped[1].poNumber
                                         /\ s.itemNo = r.mapped[1].itemNo)
             => /\ r2.pc = "done" /\ r2.response.status = 409
                /\ r2.inserted = {} /\ procuredMeds' = procuredMeds
          /\ (r.kind = "iarManual" /\ r.pc = "find" /\ r2 # r
              /\ \E s \in iar : /\ s.iarNumber = r.mapped[1].iarNumber
                                /\ s.poNumber = r.mapped[1].poNumber
                                /\ s.itemNumber = r.mapped[1].itemNumber)
             => /\ r2.pc = "done" /\ r2.response.status = 409
                /\ r2.inserted = {} /\ iar' = iar
          /\ (IsCommit(r) /\ r.pc = "insert" /\ r2 # r)
             => /\ \A key \in r.found :
                     /\ PayloadRowsOfKey(r, key) = {}
                     /\ \E n \in LogsOfKey(r, key) :
                          /\ r.logs[n].result = "skipped"
                          /\ r.logs[n].reason = "already_exists"
                     /\ \A n \in LogsOfKey(r, key) : r.logs[n].result = "skipped"
                /\ \/ /\ r2.response.status = 200
                      /\ \A key \in r.found :
                           \E n \in 1..Len(r2.response.logs) :
                             /\ KeyOfRow(r, r2.response.logs[n]) = key
                             /\ r2.response.logs[n].reason = "already_exists"
                   \/ /\ r2.rejected # {}
                      /\ \A v \in r2.rejected : KeyOfRow(r, v) \notin r.found]_vars

\* C13 witness: a manual insert answered 409 for a key a finished commit
\* stored, and nothing stored by it
C13_Witness ==
  \E i \in Requests, j \in Requests :
    /\ req[i].kind \in {"poManual", "iarManual"}
    /\ req[i].pc = "done" /\ req[i].response.status = 409
    /\ req[i].inserted = {}
    /\ Succeeded(req[j]) /\ req[j].inserted # {}
    /\ req[i].found \subseteq req[j].inserted

\* C14: when manual inserts, or a manual insert and a batch commit, race on one
\* key, the store keeps one row of the key and the manual insert that loses is
\* answered 409, whatever the interleaving: a manual insert whose key another
\* request stored first never ends in a server error.
C14_RaceLoserGetsConflict ==
  \A i \in Requests :
    (req[i].kind \in {"poManual", "iarManual"} /\ req[i].pc = "done"
     /\ (req[i].found # {} \/ req[i].rejected # {}))
      => /\ req[i].response.status = 409
         /\ req[i].inserted = {}

\* ------------------------------------------------------------------ C15
ParseOutputs == {"iarParse", "poParse"}

\* the data rows of the uploaded sheet that hold a cell, in sheet order
ExtractedRows == SelectSeq(input.rows, LAMBDA r : ~r.blank)

\* the prepared form of a sheet row, and whether the row schema refuses it
PreparedRow(r) ==
  IF input.kind = "iarSheet" THEN IarParseMap(r) ELSE PoParseMap(r)
RefusedRow(r) ==
  IF input.kind = "iarSheet" THEN ~IarRowSchemaOk(IarParseMap(r))
  ELSE ~PoRowSchemaOk(PoParseMap(r))

\* the prepared rows at the positions outside bad, in order
RECURSIVE PreparedOutside(_, _, _)
PreparedOutside(rows, bad, k) ==
  IF k > Len(rows) THEN <<>>
  ELSE IF k \in bad THEN PreparedOutside(rows, bad, k + 1)
  ELSE <<PreparedRow(rows[k])>> \o PreparedOutside(rows, bad, k + 1)

\* C15: a parse never stops at a bad row.  Every extracted row ends in
\* exactly one of the valid list and the error list: totalRows is the number
\* of extracted rows, validRowsCount plus the number of errors is totalRows,
\* the error list names each refused row once and no other row, and the valid
\* list is the remaining rows in their original order.
C15_EveryRowInOneList ==
  output.kind \in ParseOutputs =>
    LET bad == {k \in 1..Len(ExtractedRows) : RefusedRow(ExtractedRows[k])}
        reported == {output.errors[e].index - 2 + 1 : e \in 1..Len(output.errors)}
    IN /\ output.totalRows = Len(ExtractedRows)
       /\ output.validRowsCount + Len(output.errors) = output.totalRows
       /\ output.validRowsCount = Len(output.allValidRows)
       /\ Cardinality(reported) = Len(output.errors)
       /\ reported = bad
       /\ output.allValidRows = PreparedOutside(ExtractedRows, bad, 1)

\* a refused row between two different accepted rows has been parsed
C15_Witness ==
  /\ output.kind \in ParseOutputs
  /\ output.totalRows = 3 /\ output.validRowsCount = 2
  /\ Len(output.errors) = 1 /\ output.errors[1].index = 3
  /\ output.allValidRows[1] # output.allValidRows[2]

\* ------------------------------------------------------------------ C16
\* C16 as the specification states it: the position reported with a parse
\* error is the spreadsheet row number of the failing row (data row N is
\* reported as N + 1, the header being row 1), also for rows that come after
\* rows dropped before validation.
C16_IndexIsSpreadsheetRow ==
  output.kind \in ParseOutputs =>
    {output.errors[e].index : e \in 1..Len(output.errors)}
      = {n + 1 : n \in {k \in 1..Len(input.rows) :
                          ~input.rows[k].blank /\ RefusedRow(input.rows[k])}}

\* ------------------------------------------------------------------ C20
\* C20 as the specification states it: parseParticulars of the text
\* Batch: AB-12345; Exp: 03/2026 "BrandX" gives brand BrandX, batch
\* AB-12345 and expiration date 2026-03-01; here for every sheet all of whose
\* rows carry that text and are accepted.
C20_LabelledExpiryExample ==
  (/\ output.kind = "iarParse"
   /\ \A k \in 1..Len(input.rows) :
        /\ ~input.rows[k].blank
        /\ input.rows[k].particulars = CStr(ParticularsLabelledFirst)
        /\ ~RefusedRow(input.rows[k]))
  => \A k \in 1..Len(output.allValidRows) :
       /\ output.allValidRows[k].brand = <<"B", "r", "a", "n", "d", "X">>
       /\ output.allValidRows[k].batchLotNumber
            = <<"A", "B", "-", "1", "2", "3", "4", "5">>
       /\ output.allValidRows[k].expirationDate
            = <<"2", "0", "2", "6", "-", "0", "3", "-", "0", "1">>

\* ------------------------------------------------------------------ C17
\* C17 as the specification states it: the list a supporting read endpoint
\* returns holds trimmed, non-empty values, no value twice, in ascending
\* order, whatever is stored, values that differ only by surrounding
\* whitespace included.
C17_ListsSortedDistinctTrimmed ==
  output.kind = "values" =>
    /\ \A k \in 1..Len(output.values) :
         output.values[k] = Trim(output.values[k]) /\ Len(output.values[k]) > 0
    /\ \A j, k \in 1..Len(output.values) :
         j < k => TextBefore(output.values[j], output.values[k])

\* ------------------------------------------------------------------ C19
IarRequestKinds == {"iarCommit", "iarManual"}
DelegateHint == "Prisma client has no IAR model loaded"

\* the body of an inspection request passes the checks the handler makes
\* before it looks for the delegate: the schema for the commit; the schema and
\* the two date checks for the manual insert
ReachesDelegateCheck(r) ==
  IF r.kind = "iarCommit" THEN IarCommitSchemaOk(r.rows)
  ELSE LET b == r.rows[1]
           data == IarManualData(b)
       IN /\ IarManualSchemaOk(b)
          /\ parseDateOnly(data.dateOfInspection).kind # "null"
          /\ ~(/\ data.expirationDate # Null /\ data.expirationDate # <<>>
               /\ parseDateOnly(data.expirationDate).kind = "null")

\* C19: when the inspection-record delegate is unavailable, an inspection
\* commit and a manual inspection insert whose body gets as far as the
\* delegate check are answered with HTTP 500 and the remediation hint (a body
\* refused before that check is answered 400), and no step of such a request
\* writes to either store.
C19_NoDelegateServerError ==
  /\ [](~iarLoaded =>
          /\ iar = {}
          /\ \A i \in Requests :
               (req[i].kind \in IarRequestKinds /\ req[i].pc = "done") =>
                 /\ req[i].inserted = {}
                 /\ IF ReachesDelegateCheck(req[i])
                      THEN /\ req[i].response.status = 500
                           /\ req[i].response.error = DelegateHint
                      ELSE req[i].response.status = 400)
  /\ [][\A i \in Requests :
          (~iarLoaded /\ req'[i].kind \in IarRequestKinds /\ req'[i] # req[i])
            => (procuredMeds' = procuredMeds /\ iar' = iar)]_vars

\* without the delegate, a commit and a manual insert with a line item of
\* theirs in the store have both been answered 500
C19_Witness ==
  /\ ~iarLoaded
  /\ \E i, j \in Requests :
       /\ req[i].kind = "iarCommit" /\ req[i].pc = "done"
       /\ req[i].response.status = 500 /\ Len(req[i].rows) >= 1
       /\ req[j].kind = "iarManual" /\ req[j].pc = "done"
       /\ req[j].response.status = 500

\* ------------------------------------------------------------------ C18
\* C18: the commits and the manual inserts only add rows.  Across every step
\* of every request, each purchase-order line and each inspection record
\* stored before the step is stored after it with the same field values,
\* whether the request inserts, skips rows or fails.
C18_StoresOnlyGrow ==
  [][procuredMeds \subseteq procuredMeds' /\ iar \subseteq iar']_vars

\* with lines in the store, one request has inserted a row and skipped
\* another, and the bulk or single write of a second request has been refused
C18_Witness ==
  /\ procuredMeds # {}
  /\ \E i, j \in Requests :
       /\ req[i].pc = "done" /\ req[i].response.status = 200
       /\ req[i].inserted # {} /\ req[i].response.skippedDuplicates > 0
       /\ req[j].pc = "done" /\ req[j].response.status = 500
       /\ req[j].rejected # {}

\* ====================================================================
\* An upload from the sheet to the store: the page posts the sheet to the
\* parse endpoint and then posts the rows it got back, unchanged, to the
\* commit endpoint, one commit at a time.
\* ====================================================================

\* JSON.stringify({ rows: allRows }) of the inspection upload page, as the
\* commit reads it
IarCommitBody(allRows) ==
  [k \in 1..Len(allRows) |->
     IarRow(allRows[k].iarNumber, allRows[k].dateOfInspection,
            allRows[k].poNumber, allRows[k].itemNumber[1],
            allRows[k].inspectedQuantity[1], allRows[k].expirationDate, Null)]

\* JSON.stringify({ rows: allRows }) of the purchase-order upload page, as
\* the commit reads it
PoCommitBody(allRows) ==
  [k \in 1..Len(allRows) |->
     PoRow(allRows[k].poNumber, allRows[k].itemNo[1], allRows[k].poDate,
           IF allRows[k].manufacturer.t = "str" THEN allRows[k].manufacturer.s
           ELSE Null,
           IF allRows[k].quantity.t = "num" THEN Some(allRows[k].quantity.n)
           ELSE None)]

\* no commit of the page is under way
NoneInFlight == \A j \in Requests : req[j].pc \in {"idle", "done"}

\* commitRows of the inspection upload page: nothing is sent without rows or
\* while a commit is under way
SubmitIarRows(i) ==
  /\ output.kind = "iarParse" /\ Len(output.allValidRows) > 0
  /\ NoneInFlight
  /\ StartIarCommit(i, IarCommitBody(output.allValidRows))

\* commitRows of the purchase-order upload page
SubmitPoRows(i) ==
  /\ output.kind = "poParse" /\ Len(output.allValidRows) > 0
  /\ NoneInFlight
  /\ StartPoCommit(i, PoCommitBody(output.allValidRows))

UploadInit ==
  /\ procuredMeds = {} /\ iar = {}
  /\ iarLoaded = TRUE
  /\ req = [i \in Requests |-> IdleRequest]
  /\ output = NoOutput
  /\ page = NoPage
  /\ \/ \E rows \in SheetsOver(IarSheetRowPool) :
          input = [kind |-> "iarSheet", rows |-> rows]
     \/ \E rows \in SheetsOver(PoSheetRowPool) :
          input = [kind |-> "poSheet", rows |-> rows]

UploadNext ==
  \/ ParseIar
  \/ ParseProcured
  \/ \E i \in Requests : SubmitIarRows(i)
  \/ \E i \in Requests : IarCommitMfrLookup(i)
  \/ \E i \in Requests : IarCommitLookup(i)
  \/ \E i \in Requests : IarCommitInsert(i)
  \/ \E i \in Requests : SubmitPoRows(i)
  \/ \E i \in Requests : PoCommitLookup(i)
  \/ \E i \in Requests : PoCommitInsert(i)

UploadSpec == UploadInit /\ [][UploadNext]_vars

\* ------------------------------------------------------------------ C21
\* the texts no date format of the inspection parse recognises
UnreadDates == {<<"N", "/", "A">>}

\* row k of the parsed sheet has a date text no format reads and lacks no
\* other required cell
UnreadDateRow(k) ==
  /\ output.kind = "iarParse"
  /\ ~input.rows[k].blank
  /\ input.rows[k].dateOfInspection.t = "str"
  /\ Trim(input.rows[k].dateOfInspection.s) \in UnreadDates
  /\ input.rows[k].iarNo.t # "null"
  /\ input.rows[k].poNumber.t # "null"
  /\ input.rows[k].quantity.t # "null"

\* C21: an inspection row whose date cell is a text no date format reads is
\* returned by the parse as a valid row with the text passed through
\* (trimmed), and the commit of the rows the parse returned, unchanged, is
\* refused as a whole with a 400 and stores nothing.
C21_ParseValidCommitRefused ==
  /\ \A k \in 1..Len(input.rows) :
       UnreadDateRow(k)
       => \E v \in 1..Len(output.allValidRows) :
            output.allValidRows[v].dateOfInspection
              = Trim(input.rows[k].dateOfInspection.s)
  /\ \A i \in Requests :
       (/\ req[i].kind = "iarCommit" /\ req[i].pc = "done"
        /\ \E v \in 1..Len(req[i].rows) :
             req[i].rows[v].dateOfInspection \in UnreadDates)
       => /\ req[i].response.status = 400
          /\ req[i].inserted = {}
          /\ iar = {}

\* C21 as stated: the text of the date cell is in the valid row as it is in
\* the sheet
C21_DateTextUnchanged ==
  \A k \in 1..Len(input.rows) :
    UnreadDateRow(k)
    => \E v \in 1..Len(output.allValidRows) :
         output.allValidRows[v].dateOfInspection
           = input.rows[k].dateOfInspection.s

\* the rows of a sheet with an unread date between two readable rows have
\* been parsed, all three accepted, and their commit has been answered
C21_Witness ==
  /\ output.kind = "iarParse" /\ output.validRowsCount = 3
  /\ output.allValidRows[2].dateOfInspection \in UnreadDates
  /\ output.allValidRows[1].dateOfInspection \notin UnreadDates
  /\ req[1].kind = "iarCommit" /\ req[1].pc = "done"
  /\ req[1].rows = IarCommitBody(output.allValidRows)

\* ------------------------------------------------------------------ C29
\* the number the parse gives to the v-th row it accepted: its place among
\* the extracted rows, the header being row 1
ParseNumberOfValid(v) ==
  LET accepted == {k \in 1..Len(ExtractedRows) : ~RefusedRow(ExtractedRows[k])}
      place == CHOOSE k \in accepted :
                 Cardinality({j \in accepted : j <= k}) = v
  IN place + 1

\* the answers that name a row for its date
DateErrors == {"Invalid inspection date", "Invalid expiration date"}

\* C29 as stated: the row number in a commit-time date error is the number the
\* parse gives to the failing row of the sheet, for a batch that is the
\* parse's allValidRows, also when the parse refused earlier rows.
C29_CommitRowIsParseRow ==
  \A i \in Requests :
    (/\ output.kind = "iarParse"
     /\ req[i].kind = "iarCommit" /\ req[i].pc = "done"
     /\ req[i].response.error \in DateErrors)
    => req[i].response.row
         = ParseNumberOfValid(IarFirstDateError(req[i].rows))

\* ------------------------------------------------------------------ C23
\* the rows the entries of the returned ledger that say inserted name: the
\* k-th entry is that of the row submitted at position k
RowsNamedInserted(r) ==
  {PayloadRowOf(r, r.mapped[k]) :
     k \in {n \in 1..Len(r.response.logs) : r.response.logs[n].result = "inserted"}}

\* C23: in every batch commit that answers with success, as many entries of
\* the returned ledger say inserted as insertedCount reports, and the rows
\* those entries name are exactly the rows this commit added to the store,
\* each of them stored, whatever other requests wrote in the meantime.
C23_LedgerMatchesStore ==
  \A i \in Requests :
    Succeeded(req[i]) =>
      LET r == req[i]
          said == {n \in 1..Len(r.response.logs) :
                     r.response.logs[n].result = "inserted"}
      IN /\ Cardinality(said) = r.response.insertedCount
         /\ RowsNamedInserted(r) = r.inserted
         /\ Cardinality(r.inserted) = r.response.insertedCount
         /\ r.inserted \subseteq (IF r.kind = "poCommit" THEN procuredMeds ELSE iar)

\* two commits of one pipeline have answered with success, each having
\* stored rows: one found no key stored, the other skipped rows
C23_Witness ==
  \E i, j \in Requests :
    /\ i # j
    /\ Succeeded(req[i]) /\ Succeeded(req[j])
    /\ req[i].kind = req[j].kind
    /\ req[i].inserted # {} /\ req[j].inserted # {}
    /\ req[j].found = {}
    /\ req[i].response.skippedDuplicates > 0

\* ------------------------------------------------------------------ C24
\* every row of the answered commit r is skipped: the first row of a key as
\* already stored, a later one as a duplicate in the upload
AllSkipped(r) ==
  /\ Len(r.response.logs) = Len(r.rows)
  /\ \A k \in 1..Len(r.rows) :
       /\ r.response.logs[k].result = "skipped"
       /\ r.response.logs[k].reason =
            (IF FirstOfKey(r, k) = k THEN "already_exists"
             ELSE "duplicate_in_upload")

\* C24: a batch commit is idempotent on the store.  When a commit answers
\* with success after a commit of the same batch answered with success, no
\* other request having written in between, it has inserted nothing
\* (insertedCount 0), every row is skipped (already_exists for the first row
\* of a key, duplicate_in_upload for the others), and its bulk insert leaves
\* the store as it was, which is as the first commit left it.
C24_SecondCommitIdempotent ==
  [][\A a, b \in Requests :
       (/\ a # b
        /\ Succeeded(req[a])
        /\ req[b].pc # "done" /\ Succeeded(req'[b])
        /\ req'[b].kind = req[a].kind
        /\ req'[b].rows = req[a].rows)
       => /\ req'[b].response.insertedCount = 0
          /\ req'[b].inserted = {}
          /\ AllSkipped(req'[b])
          /\ procuredMeds' = procuredMeds /\ iar' = iar]_vars

\* a batch with a key submitted twice has been committed successfully
\* twice, the second commit answering with every row skipped
C24_Witness ==
  \E a, b \in Requests :
    /\ a # b
    /\ Succeeded(req[a]) /\ Succeeded(req[b])
    /\ req[a].rows = req[b].rows
    /\ req[a].inserted # {}
    /\ req[b].response.insertedCount = 0
    /\ req[b].response.skippedDuplicates = Len(req[b].rows)
    /\ \E k \in 1..Len(req[b].rows) : FirstOfKey(req[b], k) < k
    /\ \E k \in 1..Len(req[b].rows) : FirstOfKey(req[b], k) = k

\* ====================================================================
\* Deliveries against stored lines: inspection records arrive by commits and
\* manual inserts for the lines of one purchase order.
\* ====================================================================

\* the longest batch of a delivery commit
MaxDelivered == 2

\* inspection rows for the lines 1 and 2 of purchase order A: two records of
\* one unit for line 1, a record of nothing for line 2, and a negative quantity
DeliveryRowPool ==
  { IarRow(sI, dIso, sA, 1, 1, Null, Null),
    IarRow(sJ, dIso, sA, 1, 1, Null, Null),
    IarRow(sJ, dIso, sA, 2, 0, Null, Null),
    IarRow(sX, dIso, sA, 1, -1, Null, Null) }

DeliveryBatches == SeqsUpTo(DeliveryRowPool, MaxDelivered)

\* the stored lines: line 1 requiring two units or no stated quantity, line 2
\* requiring one unit
DeliveryLines ==
  { { [poNumber |-> sA, itemNo |-> 1, poDate |-> NullDate, manufacturer |-> Null,
       quantity |-> q],
      [poNumber |-> sA, itemNo |-> 2, poDate |-> NullDate, manufacturer |-> Null,
       quantity |-> Some(1)] } : q \in {None, Some(2)} }

DeliveryInit ==
  /\ procuredMeds \in DeliveryLines
  /\ iar = {}
  /\ iarLoaded = TRUE
  /\ req = [i \in Requests |-> IdleRequest]
  /\ input = NoInput
  /\ output = NoOutput
  /\ page = NoPage

DeliveryCommitRequest(i) ==
  CanStart(i) /\ \E rows \in DeliveryBatches : StartIarCommit(i, rows)
DeliveryManualRequest(i) ==
  CanStart(i) /\ \E b \in DeliveryRowPool : StartIarManual(i, b)

DeliveryNext ==
  \/ \E i \in Requests : DeliveryCommitRequest(i)
  \/ \E i \in Requests : IarCommitMfrLookup(i)
  \/ \E i \in Requests : IarCommitLookup(i)
  \/ \E i \in Requests : IarCommitInsert(i)
  \/ \E i \in Requests : DeliveryManualRequest(i)
  \/ \E i \in Requests : IarManualProcured(i)
  \/ \E i \in Requests : IarManualFind(i)
  \/ \E i \in Requests : IarManualCreate(i)

DeliverySpec == DeliveryInit /\ [][DeliveryNext]_vars

\* ------------------------------------------------------------------ C25
\* the status the purchase-order list derives for a stored line
ItemStatus(row, iarRows) ==
  getInspectionStatus(
    QuantityOrZero(row.quantity),
    MapGetOrZero(ListInspectedByItem(iarRows), PoItemKey(row.poNumber, row.itemNo)))

StatusRank(status) ==
  IF status = "Not Delivered" THEN 0 ELSE IF status = "Partial" THEN 1 ELSE 2

\* the inspected sum of a stored line
InspectedOfLine(row, iarRows) ==
  MapGetOrZero(ListInspectedByItem(iarRows), PoItemKey(row.poNumber, row.itemNo))

\* C25: the derived status of a stored line never regresses as inspection
\* records are inserted by commits and manual inserts.  Across every step the
\* inspected sum of the line does not decrease and its status does not move
\* back: it goes Not Delivered, Partial, Complete, and Complete stays.
C25_StatusNeverRegresses ==
  [][\A row \in procuredMeds :
       /\ InspectedOfLine(row, iar) <= InspectedOfLine(row, iar')
       /\ StatusRank(ItemStatus(row, iar)) <= StatusRank(ItemStatus(row, iar'))
       /\ ItemStatus(row, iar) = "Complete" => ItemStatus(row, iar') = "Complete"]_vars

\* line 1, requiring two units, is Complete after two records of one unit
\* stored by two requests, and a record of nothing has left line 2 undelivered
C25_Witness ==
  /\ \E row \in procuredMeds :
       /\ row.itemNo = 1 /\ row.quantity = Some(2)
       /\ ItemStatus(row, iar) = "Complete"
  /\ \A i \in Requests : req[i].pc = "done" /\ Cardinality(req[i].inserted) >= 1
  /\ \E row \in procuredMeds :
       /\ row.itemNo = 2 /\ ItemStatus(row, iar) = "Not Delivered"
       /\ \E r \in iar : r.itemNumber = 2

\* ------------------------------------------------------------------ C28
\* C28 as stated: in the manufacturer backfill of the inspection commit, the
\* pair recovered by splitting the joined key of a deduplicated row is the
\* (poNumber, itemNumber) of that row, whatever the poNumber holds, so the
\* line-item query asks for the pair of the row.
C28_SplitRecoversPair ==
  \A i \in Requests :
    (req[i].kind = "iarCommit" /\ req[i].pc \in {"mfr", "lookup", "insert", "done"})
    => \A k \in 1..Len(req[i].dedupedRows) :
         LET row == req[i].dedupedRows[k]
             pair == PoItemPairOf(PoItemKey(row.poNumber, row.itemNumber))
         IN /\ pair.poNumber = row.poNumber
            /\ ~pair.itemNumber.nan
            /\ pair.itemNumber.val = row.itemNumber

\* ====================================================================
\* Inspection commits whose key fields hold the separator of the joined key.
\* ====================================================================

s1A == <<"1", ":", ":", "A">>

\* rows of three different keys; the first two join to the same text,
\* A::1::A::1
SeparatorRowPool ==
  { IarRow(sA1, dIso, sA, 1, 1, Null, Null),
    IarRow(sA, dIso, s1A, 1, 2, Null, Null),
    IarRow(sI, dIso, sA, 1, 1, Null, Null) }

SeparatorBatches == SeqsUpTo(SeparatorRowPool, MaxBatch)

SeparatorCommitRequest(i) ==
  CanStart(i) /\ \E rows \in SeparatorBatches : StartIarCommit(i, rows)

SeparatorInit ==
  /\ procuredMeds = {}
  /\ iar = {}
  /\ iarLoaded = TRUE
  /\ req = [i \in Requests |-> IdleRequest]
  /\ input = NoInput
  /\ output = NoOutput
  /\ page = NoPage

SeparatorNext ==
  \/ \E i \in Requests : SeparatorCommitRequest(i)
  \/ \E i \in Requests : IarCommitMfrLookup(i)
  \/ \E i \in Requests : IarCommitLookup(i)
  \/ \E i \in Requests : IarCommitInsert(i)

SeparatorSpec == SeparatorInit /\ [][SeparatorNext]_vars

\* ------------------------------------------------------------------ C27
\* C27 as stated: the inspection commit logs a row duplicate_in_upload only
\* if a row submitted before it has the same iarNumber, poNumber and
\* itemNumber, and already_exists only if a stored row has them, also when
\* iarNumber or poNumber holds the separator of the joined key.
C27_SkippedOnlyForEqualFields ==
  \A i \in Requests :
    (Assembled(req[i]) /\ req[i].kind = "iarCommit") =>
      \A n \in 1..Len(req[i].logs) :
        LET r == req[i]
            k == r.logs[n].rowIndex + 1
        IN /\ r.logs[n].reason = "duplicate_in_upload"
                => \E j \in 1..(k - 1) : SameKey(r, r.mapped[j], r.mapped[k])
           /\ r.logs[n].reason = "already_exists"
                => \E s \in r.found : SameKey(r, s, r.mapped[k])

\* ====================================================================
\* The existing-key loop over long lists: the deduplicated rows of a commit
\* are cut into groups, one query is issued per group and the keys found are
\* collected.  The list and the store are drawn, the loop is run a group at
\* a time.
\* ====================================================================

\* the longest list holds MaxGroups full groups and one row more
MaxGroups == 2

\* list lengths around the group boundaries
LookupLengths ==
  {0, 1} \cup {g * ChunkSize + d : g \in 1..MaxGroups, d \in {-1, 0, 1}}

\* the item numbers of the keys that may be stored: the rows next to a boundary
BoundaryItems == {1, ChunkSize, ChunkSize + 1, MaxGroups * ChunkSize + 1}

\* n deduplicated rows of pairwise different keys, as each pipeline prepares them
PoLongList(n) ==
  [k \in 1..n |->
     [poNumber |-> sA, itemNo |-> k, poDate |-> NullDate, manufacturer |-> Null,
      quantity |-> None, rowIndex |-> k - 1]]
IarLongList(n) ==
  [k \in 1..n |->
     [iarNumber |-> sI, dateOfInspection |-> DateOf(2024, 1, 15), poNumber |-> sA,
      itemNumber |-> k, inspectedQuantity |-> 1, expirationDate |-> NullDate,
      rowIndex |-> k - 1]]

\* the loop before its first iteration
LookupStart == [kind |-> "lookup", asked |-> <<>>, existingKeys |-> {}, over |-> FALSE]

LookupInit ==
  /\ iarLoaded = TRUE
  /\ req = [i \in Requests |-> IdleRequest]
  /\ output = LookupStart
  /\ page = NoPage
  /\ \E n \in LookupLengths, items \in SUBSET BoundaryItems :
       \/ /\ input = [kind |-> "poLookup", dedupedRows |-> PoLongList(n)]
          /\ procuredMeds = {PoStoredRow(PoLongList(k)[k]) : k \in items}
          /\ iar = {}
       \/ /\ input = [kind |-> "iarLookup", dedupedRows |-> IarLongList(n)]
          /\ iar = {IarStoredRow(IarLongList(k)[k], {}) : k \in items}
          /\ procuredMeds = {}

\* for (const group of chunk(dedupedRows, 500)) of the purchase-order commit:
\* one iteration, or the end of the loop
PoLookupGroup ==
  /\ input.kind = "poLookup" /\ ~output.over
  /\ LET groups == chunk(input.dedupedRows, ChunkSize)
         g == Len(output.asked) + 1
     IN output' =
          IF g > Len(groups) THEN [output EXCEPT !.over = TRUE]
          ELSE [output EXCEPT
                  !.asked = Append(@, groups[g]),
                  !.existingKeys =
                    @ \cup PoExistingKeys(PoFindMany(procuredMeds, groups[g]))]
  /\ UNCHANGED <<procuredMeds, iar, iarLoaded, req, input, page>>

\* the same loop of the inspection commit
IarLookupGroup ==
  /\ input.kind = "iarLookup" /\ ~output.over
  /\ LET groups == chunk(input.dedupedRows, ChunkSize)
         g == Len(output.asked) + 1
     IN output' =
          IF g > Len(groups) THEN [output EXCEPT !.over = TRUE]
          ELSE [output EXCEPT
                  !.asked = Append(@, groups[g]),
                  !.existingKeys =
                    @ \cup IarExistingKeys(IarFindMany(iar, groups[g]))]
  /\ UNCHANGED <<procuredMeds, iar, iarLoaded, req, input, page>>

LookupNext == PoLookupGroup \/ IarLookupGroup

LookupSpec == LookupInit /\ [][LookupNext]_vars

\* ------------------------------------------------------------------ C22
RECURSIVE Flatten(_)
\* the groups one after the other
Flatten(groups) ==
  IF groups = <<>> THEN <<>> ELSE Head(groups) \o Flatten(Tail(groups))

\* the joined keys of the stored rows whose key fields a row of the list has
StoredKeysOf(rows) ==
  IF input.kind = "poLookup"
    THEN {PoKeyOf(s.poNumber, s.itemNo) :
            s \in {t \in procuredMeds :
                     t.poNumber = sA /\ t.itemNo \in 1..Len(rows)}}
    ELSE {IarKeyOf(s.iarNumber, s.poNumber, s.itemNumber) :
            s \in {t \in iar : t.iarNumber = sI /\ t.poNumber = sA
                               /\ t.itemNumber \in 1..Len(rows)}}

\* C22: the existing-key loop asks for the key of every deduplicated row
\* exactly once, in consecutive groups of at most 500 rows that put one after
\* the other give the deduplicated list (at 499, 500, 501, 999, 1000 and 1001
\* rows too), it issues no query for an empty list, and the keys it ends with
\* are those all the groups found.
C22_LookupCoversListOnce ==
  output.kind = "lookup" =>
    LET rows == input.dedupedRows
        asked == Flatten(output.asked)
    IN /\ \A g \in 1..Len(output.asked) :
            Len(output.asked[g]) >= 1 /\ Len(output.asked[g]) <= ChunkSize
       /\ Len(asked) <= Len(rows)
       /\ asked = SubSeq(rows, 1, Len(asked))
       /\ output.existingKeys = StoredKeysOf(asked)
       /\ output.over =>
            /\ asked = rows
            /\ Len(output.asked) = (Len(rows) + ChunkSize - 1) \div ChunkSize
            /\ output.existingKeys = StoredKeysOf(rows)

\* the loop is over for a list of two full groups and one row, the keys next
\* to both boundaries stored and found
C22_Witness ==
  /\ output.kind = "lookup" /\ output.over
  /\ Len(input.dedupedRows) = 2 * ChunkSize + 1
  /\ Len(output.asked) = 3
  /\ Cardinality(output.existingKeys) = 4

\* ====================================================================
\* The three pages that derive a delivery status from the stored lines and
\* inspection records: the DPRI-B report, the purchase-order list and the
\* details page of a purchase order.
\* ====================================================================

\* deliveryStatus of a report row: the report's own expression
ReportDeliveryStatus(row, iarRows) ==
  LET inspectedByItem == ListInspectedByItem(iarRows)
      inspected == MapGetOrZero(inspectedByItem, PoItemKey(row.poNumber, row.itemNo))
  IN IF inspected <= 0 THEN "Not Delivered"
     ELSE IF QuantityOrZero(row.quantity) > 0
             /\ inspected >= QuantityOrZero(row.quantity) THEN "Complete"
     ELSE "Partial"

\* the status of a line on the details page of its purchase order
PageItemStatus(row, iarStore) ==
  PageGetInspectionStatus(
    QuantityOrZero(row.quantity),
    MapGetOrZero(PageInspectedByItem({r \in iarStore : r.poNumber = row.poNumber}),
                 row.itemNo))

\* GET /dpri-b-report: one row per stored line
RenderDpriBReport ==
  /\ input.kind = "dashboard" /\ output = NoOutput
  /\ output' =
       [kind |-> "report",
        rows |-> {[poNumber |-> row.poNumber, itemNo |-> row.itemNo,
                   quantity |-> row.quantity,
                   deliveryStatus |-> ReportDeliveryStatus(row, iar)] :
                  row \in procuredMeds}]
  /\ UNCHANGED <<procuredMeds, iar, iarLoaded, req, input, page>>

ReportInit ==
  /\ iarLoaded = TRUE
  /\ req = [i \in Requests |-> IdleRequest]
  /\ output = NoOutput
  /\ page = NoPage
  /\ input = [kind |-> "dashboard"]
  /\ procuredMeds \in LineItemStores /\ iar \in InspectionStores

ReportNext == RenderDpriBReport \/ RenderListsOfPOs \/ RenderPoDetails

ReportSpec == ReportInit /\ [][ReportNext]_vars

\* ------------------------------------------------------------------ C26
\* C26: on the same stored data the three pages agree.  Every row of the
\* report carries the status the list and the details page derive for its
\* line; every purchase order of the list carries the status its details page
\* shows, and a details page the status the list shows for its purchase order.
C26_PagesAgree ==
  /\ output.kind = "report" =>
       /\ {[poNumber |-> r.poNumber, itemNo |-> r.itemNo] : r \in output.rows}
            = {[poNumber |-> row.poNumber, itemNo |-> row.itemNo] : row \in procuredMeds}
       /\ \A r \in output.rows :
            /\ r.deliveryStatus = ItemStatus(r, iar)
            /\ r.deliveryStatus = PageItemStatus(r, iar)
  /\ output.kind = "list" =>
       \A s \in output.summaries :
         s.status = PageStatus(s.poNumber, procuredMeds, iar)
  /\ (output.kind = "details" /\ output.status # "notFound") =>
       \E s \in ListSummaries(procuredMeds, iar) :
         s.poNumber = output.poNumber /\ s.status = output.status

\* the report shows a line Complete, a line Partial that requires nothing and
\* a line not delivered, with records of two purchase orders in the store
C26_Witness ==
  /\ output.kind = "report"
  /\ \E a \in output.rows, b \in output.rows, c \in output.rows :
       /\ a.deliveryStatus = "Complete"
       /\ b.deliveryStatus = "Partial" /\ QuantityOrZero(b.quantity) = 0
       /\ c.deliveryStatus = "Not Delivered"
  /\ \E x \in iar, y \in iar : x.poNumber # y.poNumber

\* ====================================================================
\* The upload pages in the browser (inspections and purchase orders): the
\* React state of the page, the user's file choices and clicks, and the
\* parse and commit requests the page has sent and not yet seen answered.
\* The two endpoints are taken by their answers: success with the rows of the
\* file that was sent, respectively the ledger of the rows that were sent, or
\* a failure.
\* ====================================================================

\* the files the user may choose; 0 is no file
MaxFiles == 2
\* the choices and clicks of one visit
MaxEvents == 4

Files == 1..MaxFiles

\* the valid rows of a file as the parse returns them, each known by its file
RowsOfFile(f) == <<[file |-> f]>>

\* the ledger a successful commit returns for the rows it was sent
LogsOfRows(rows) == [k \in 1..Len(rows) |-> [file |-> rows[k].file]]

PageInit ==
  /\ procuredMeds = {} /\ iar = {}
  /\ iarLoaded = TRUE
  /\ req = [i \in Requests |-> IdleRequest]
  /\ input = NoInput
  /\ output = NoOutput
  /\ \E kind \in {"iarPage", "poPage"} :
       page = [kind |-> kind, file |-> 0, preview |-> <<>>, allRows |-> <<>>,
               errors |-> <<>>, isParsing |-> FALSE, isCommitting |-> FALSE,
               commitLogs |-> <<>>, showSuccessModal |-> FALSE,
               parseSent |-> 0, commitSent |-> <<>>, events |-> 0]

\* parseFile up to its await: nothing while a parse is under way; otherwise
\* the lists are cleared and the file is sent
StartParse(p, fileToParse) ==
  IF fileToParse = 0 \/ p.isParsing THEN p
  ELSE [p EXCEPT !.isParsing = TRUE, !.errors = <<>>, !.preview = <<>>,
                 !.allRows = <<>>, !.commitLogs = <<>>,
                 !.showSuccessModal = FALSE, !.parseSent = fileToParse]

\* onChange of the file input: the file is kept, then parsed; without a file
\* the lists are cleared
SelectFile ==
  /\ page.kind # "none" /\ page.events < MaxEvents
  /\ \E selected \in 0..MaxFiles :
       LET p == [page EXCEPT !.file = selected, !.events = @ + 1] IN
       page' = IF selected # 0 THEN StartParse(p, selected)
               ELSE [p EXCEPT !.errors = <<>>, !.preview = <<>>, !.allRows = <<>>,
                              !.commitLogs = <<>>, !.showSuccessModal = FALSE]
  /\ UNCHANGED <<procuredMeds, iar, iarLoaded, req, input, output>>

\* the Re-Preview button, enabled with a file and nothing under way
ClickRePreview ==
  /\ page.kind # "none" /\ page.events < MaxEvents
  /\ page.file # 0 /\ ~page.isParsing /\ ~page.isCommitting
  /\ page' = StartParse([page EXCEPT !.events = @ + 1], page.file)
  /\ UNCHANGED <<procuredMeds, iar, iarLoaded, req, input, output>>

\* the answer to the parse request arrives: on success the lists are set from
\* it; in every case isParsing is reset
ParseSettles ==
  /\ page.kind # "none" /\ page.parseSent # 0
  /\ \E ok \in BOOLEAN :
       LET p == [page EXCEPT !.isParsing = FALSE, !.parseSent = 0] IN
       page' = IF ok
                 THEN [p EXCEPT !.errors = <<>>,
                                !.preview = RowsOfFile(page.parseSent),
                                !.allRows = RowsOfFile(page.parseSent)]
                 ELSE p
  /\ UNCHANGED <<procuredMeds, iar, iarLoaded, req, input, output>>

\* the Insert button, enabled with rows and nothing under way: commitRows up
\* to its await
ClickInsert ==
  /\ page.kind # "none" /\ page.events < MaxEvents
  /\ Len(page.allRows) > 0 /\ ~page.isParsing /\ ~page.isCommitting
  /\ page' = [page EXCEPT !.isCommitting = TRUE, !.commitSent = page.allRows,
                          !.events = @ + 1]
  /\ UNCHANGED <<procuredMeds, iar, iarLoaded, req, input, output>>

\* the answer to the commit request arrives: on success the ledger is shown;
\* in every case isCommitting is reset
CommitSettles ==
  /\ page.kind # "none" /\ page.commitSent # <<>>
  /\ \E ok \in BOOLEAN :
       LET p == [page EXCEPT !.isCommitting = FALSE, !.commitSent = <<>>] IN
       page' = IF ok
                 THEN [p EXCEPT !.commitLogs = LogsOfRows(page.commitSent),
                                !.showSuccessModal = (page.kind = "iarPage")]
                 ELSE p
  /\ UNCHANGED <<procuredMeds, iar, iarLoaded, req, input, output>>

PageNext ==
  \/ SelectFile
  \/ ClickRePreview
  \/ ParseSettles
  \/ ClickInsert
  \/ CommitSettles

PageSpec == PageInit /\ [][PageNext]_vars

\* ------------------------------------------------------------------ C30
\* every request of the page has been answered
Settled == page.kind # "none" /\ page.parseSent = 0 /\ page.commitSent = <<>>

\* C30 as stated: once every parse and commit request of an upload page has
\* been answered, the rows held for commit, the preview and the commit logs
\* shown all come from the file that is selected, also when a second file was
\* chosen while a parse or a commit of the first was under way.
C30_SettledPageShowsSelectedFile ==
  Settled =>
    /\ \A k \in 1..Len(page.allRows) : page.allRows[k].file = page.file
    /\ \A k \in 1..Len(page.preview) : page.preview[k].file = page.file
    /\ \A k \in 1..Len(page.commitLogs) : page.commitLogs[k].file = page.file

=============================================================================
